---- MODULE Spec2Model ----
(***************************************************************************)
(* A model of easyvk (src/src/easyvk.cpp): memory-type selection, Buffer   *)
(* range validation / aligned host mapping / flush and invalidate /        *)
(* device copy, and the ComputeProgram construction, teardown and dispatch *)
(* state machine.  The driver (Vulkan) is the environment: every driver    *)
(* call whose result the code inspects may succeed or fail.                *)
(*                                                                         *)
(* VkDeviceSize is a 64-bit unsigned integer in the code.  The model keeps *)
(* the unsigned wrap-around but scales the width to SizeBits bits, so that *)
(* UINT64_MAX, VK_WHOLE_SIZE and every overflow case are reachable.        *)
(***************************************************************************)
EXTENDS Integers, Sequences, FiniteSets, TLC

\* ------------------------------------------------------------------ bounds
\* Width, in bits, of the scaled VkDeviceSize.
SizeBits ==
    4
\* Largest buffer size (bytes) a Buffer of the model is created with.
MaxBufferSize ==
    2
\* Largest number of entries of the device's memory-type table.
MaxMemoryTypes ==
    2
\* The largest per-axis maxComputeWorkGroupCount of the devices of the model.
MaxWorkgroupCount ==
    2
\* The largest descriptor set index a binding uses.
MaxSetIndex ==
    1
\* The number of submissions a behaviour makes for the program.
MaxSubmits ==
    1
\* The most teardown() calls and destructor runs a program sees.
MaxTeardowns ==
    2
\* The most Device::wait calls made on one SubmitHandle.
MaxWaits ==
    2
\* The number of bits 32-bit values (uint32_t) are scaled to.
WordBits ==
    4
\* The most setPushConstants calls that copy data a program sees.
MaxPushes ==
    2
\* The most physical devices an instance enumerates.
MaxPhysicalDevices ==
    2

\* ------------------------------------------------------- program constants
VK_MEMORY_PROPERTY_DEVICE_LOCAL_BIT ==
    1
VK_MEMORY_PROPERTY_HOST_VISIBLE_BIT ==
    2
VK_MEMORY_PROPERTY_HOST_COHERENT_BIT ==
    4
VK_MEMORY_PROPERTY_HOST_CACHED_BIT ==
    8

\* 2^SizeBits: VkDeviceSize arithmetic is taken modulo this.
UINT64_MOD ==
    2 ^ SizeBits
UINT64_MAX ==
    UINT64_MOD - 1
\* VK_WHOLE_SIZE is (~0ULL).
VK_WHOLE_SIZE ==
    UINT64_MAX

\* Unsigned VkDeviceSize addition and subtraction, with wrap-around.
AddU64(a, b) ==
    (a + b) % UINT64_MOD
SubU64(a, b) ==
    (a - b) % UINT64_MOD

\* Bitwise AND of two naturals (the code's operator &).
RECURSIVE BitAnd(_, _)
BitAnd(a, b) ==
    IF a = 0 \/ b = 0 THEN 0
    ELSE 2 * BitAnd(a \div 2, b \div 2) + (IF a % 2 = 1 /\ b % 2 = 1 THEN 1 ELSE 0)
\* memoryTypeBits & (1u << i)
BitSet(bits, i) ==
    (bits \div (2 ^ i)) % 2 = 1

Min(a, b) ==
    IF a < b THEN a ELSE b

\* UINT32_MAX, 32-bit values being scaled to WordBits bits.
UINT32_MAX ==
    2 ^ WordBits - 1

\* Byte k of the data a caller passes to setPushConstants: 1 and 2 in turn,
\* starting with first.
PushData(first, k) ==
    ((first + k + 1) % 2) + 1

\* --------------------------------------------------------------- variables
VARIABLES
    memoryTypes,    \* VkPhysicalDeviceMemoryProperties.memoryTypes[i].propertyFlags
    selected,       \* the last Device::selectMemory call: arguments and result
    noExceptions,   \* TRUE in the EASYVK_NO_EXCEPTIONS build
    nonCoherentAtomSize, \* Device::limits().nonCoherentAtomSize
    size_,          \* Buffer::size_, per buffer
    hostAccess_,    \* Buffer::hostAccess_, per buffer
    memFlags_,      \* Buffer::memFlags_, per buffer
    deviceMem,      \* the bytes of each buffer's memory as the device sees them
    hostView,       \* the bytes of each buffer's memory as the host sees them
    mappings,       \* the caller's BufferMapping objects, per slot
    released,       \* history: per buffer, the bytes last handed back by a
                    \* released write mapping and not overwritten since
    last,           \* the last call made and how it ended
    terminated,     \* std::terminate was called
    limits,         \* Device::limits(), Device::supportsTimestamps(), and whether
                    \* the debug-utils label functions are loaded
    program,        \* the ComputeProgram object (its members)
    driverObjects,  \* the driver's view of each handle the program can own
    driverSetLayouts, \* the driver's view of the descriptor-set layouts, per set
    recorded,       \* the driver calls the last dispatch made on cmdBuf_ and the
                    \* queue, in order
    submits,        \* the number of submissions of cmdBuf_ the queue accepted
    wrappers,       \* the Device, Buffer and ComputeProgram objects that moves
                    \* and destructors act on, per class
    driverHandles,  \* the driver's view of the handles of those objects, per
                    \* class and construction
    submission,     \* the SubmitHandle the caller holds and the submission
                    \* behind it
    attempts,       \* the createVkBuffer calls of the Buffer construction made,
                    \* in order
    mapCalls,       \* the driver calls the last operation on a BufferMapping
                    \* made (map, release, move), in order
    physicalDevices, \* what Instance::physicalDevices() enumerates: per device
                    \* its type and its queue families, in order
    device          \* the Device object constructed on them (its members)

selectVars ==
    <<memoryTypes, selected, physicalDevices, device>>

bufferConfig ==
    <<noExceptions, nonCoherentAtomSize, size_, hostAccess_, memFlags_>>

bufferVars ==
    <<noExceptions, nonCoherentAtomSize, size_, hostAccess_, memFlags_,
      deviceMem, hostView, mappings, released, last, terminated, mapCalls>>

bufferOnly ==
    <<nonCoherentAtomSize, size_, hostAccess_, memFlags_, deviceMem, hostView,
      mappings, released, terminated, mapCalls>>

programVars ==
    <<limits, program, driverObjects, driverSetLayouts, recorded, submits>>

ownershipVars ==
    <<wrappers, driverHandles>>

vars ==
    <<memoryTypes, selected, noExceptions, nonCoherentAtomSize, size_, hostAccess_,
      memFlags_, deviceMem, hostView, mappings, released, last, terminated,
      limits, program, driverObjects, driverSetLayouts, recorded, submits,
      wrappers, driverHandles, submission, attempts, mapCalls,
      physicalDevices, device>>

\* ------------------------------------------------- Device::selectMemory
\* The property-flag sets a memory type of the table may carry.
MemoryPropertySets ==
    { 0,
      VK_MEMORY_PROPERTY_DEVICE_LOCAL_BIT,
      VK_MEMORY_PROPERTY_HOST_VISIBLE_BIT + VK_MEMORY_PROPERTY_HOST_COHERENT_BIT,
      VK_MEMORY_PROPERTY_HOST_VISIBLE_BIT + VK_MEMORY_PROPERTY_HOST_CACHED_BIT,
      VK_MEMORY_PROPERTY_DEVICE_LOCAL_BIT + VK_MEMORY_PROPERTY_HOST_VISIBLE_BIT
          + VK_MEMORY_PROPERTY_HOST_COHERENT_BIT }

\* The flag words asked of selectMemory: none, and the ones Buffer::Buffer
\* asks for (device-local; host-visible with coherent, with cached, alone).
RequestedPropertyFlags ==
    { 0,
      VK_MEMORY_PROPERTY_DEVICE_LOCAL_BIT,
      VK_MEMORY_PROPERTY_HOST_VISIBLE_BIT + VK_MEMORY_PROPERTY_HOST_COHERENT_BIT,
      VK_MEMORY_PROPERTY_HOST_VISIBLE_BIT + VK_MEMORY_PROPERTY_HOST_CACHED_BIT,
      VK_MEMORY_PROPERTY_HOST_VISIBLE_BIT }

\* Every memory-type table of at most MaxMemoryTypes entries.
MemoryTypeTables ==
    UNION { [1 .. n -> MemoryPropertySets] : n \in 0 .. MaxMemoryTypes }

\* The failure of selectMemory: the throw, or UINT32_MAX in the
\* no-exceptions build.
NoSuitableMemoryType ==
    [failed |-> TRUE, index |-> 0]
\* The return of index i.
MemoryTypeIndex(i) ==
    [failed |-> FALSE, index |-> i]

\* A flag test that accepts any overlap instead of a superset.
RECURSIVE selectMemoryAnyOverlap(_, _, _, _)
selectMemoryAnyOverlap(table, memoryTypeBits, flags, i) ==
    IF i >= Len(table) THEN NoSuitableMemoryType
    ELSE IF BitSet(memoryTypeBits, i) /\ BitAnd(flags, table[i + 1]) # 0
        THEN MemoryTypeIndex(i)
    ELSE selectMemoryAnyOverlap(table, memoryTypeBits, flags, i + 1)

\* The scan of selectMemory from index i: the first i whose bit is set in
\* memoryTypeBits and whose propertyFlags contain every bit of flags.
RECURSIVE selectMemoryFrom(_, _, _, _)
selectMemoryFrom(table, memoryTypeBits, flags, i) ==
    IF i >= Len(table) THEN NoSuitableMemoryType
    ELSE IF BitSet(memoryTypeBits, i) /\ BitAnd(flags, table[i + 1]) = flags
        THEN MemoryTypeIndex(i)
    ELSE selectMemoryFrom(table, memoryTypeBits, flags, i + 1)

selectMemory(table, memoryTypeBits, flags) ==
    selectMemoryFrom(table, memoryTypeBits, flags, 0)

\* No call made yet.
NoSelection ==
    [called |-> FALSE, memoryTypeBits |-> 0, flags |-> 0, failed |-> FALSE, index |-> 0]

\* One call of Device::selectMemory(memoryTypeBits, flags).
SelectMemory(memoryTypeBits, flags) ==
    LET r == selectMemory(memoryTypes, memoryTypeBits, flags)
    IN  /\ selected' = [called |-> TRUE,
                        memoryTypeBits |-> memoryTypeBits,
                        flags |-> flags,
                        failed |-> r.failed,
                        index |-> r.index]
        /\ UNCHANGED <<memoryTypes, physicalDevices, device, bufferVars, programVars,
                       ownershipVars, submission, attempts>>

\* ------------------------------------------------------------------ Buffer
Buffers ==
    {1, 2}
\* The caller's BufferMapping variables.
Slots ==
    {1, 2}
Bytes ==
    {0, 1}
HostAccess ==
    {"None", "Write", "Read", "ReadWrite"}
\* The values of nonCoherentAtomSize the devices of the model report.
NonCoherentAtomSizes ==
    {1, 2, 4}

\* memFlags_ as Buffer::Buffer leaves it: device-local for HostAccess::None,
\* otherwise the first of the fallback chain that could be allocated.
ConstructedMemFlags(host) ==
    IF host = "None"
    THEN { VK_MEMORY_PROPERTY_DEVICE_LOCAL_BIT }
    ELSE { VK_MEMORY_PROPERTY_HOST_VISIBLE_BIT + VK_MEMORY_PROPERTY_HOST_COHERENT_BIT,
           VK_MEMORY_PROPERTY_HOST_VISIBLE_BIT + VK_MEMORY_PROPERTY_HOST_CACHED_BIT,
           VK_MEMORY_PROPERTY_HOST_VISIBLE_BIT }

\* memFlags_ & VK_MEMORY_PROPERTY_HOST_COHERENT_BIT
Coherent(b) ==
    BitAnd(memFlags_[b], VK_MEMORY_PROPERTY_HOST_COHERENT_BIT) # 0

alignDown(value, alignment) ==
    IF alignment = 0 \/ alignment = 1 THEN value
    ELSE (value \div alignment) * alignment

alignUp(value, alignment) ==
    IF alignment = 0 \/ alignment = 1 THEN value
    ELSE IF value > UINT64_MAX - alignment + 1 THEN UINT64_MAX
    ELSE ((value + alignment - 1) \div alignment) * alignment

\* Buffer::validateRange: TRUE when the range is accepted.  The last test
\* is the code's `offset > size_ - len`, an unsigned subtraction.
validateRange(size, offset, len) ==
    /\ len # 0
    /\ ~(offset >= size)
    /\ ~(offset > SubU64(size, len))

\* Buffer::mapWrite, the aligned superset it maps (alignedOff, alignedLen).
mapWriteRange(size, atom, offsetBytes, lengthBytes) ==
    LET alignedOff == alignDown(offsetBytes, atom)
        alignedLen == alignUp(AddU64(lengthBytes, SubU64(offsetBytes, alignedOff)), atom)
    IN  [offset |-> alignedOff,
         length |-> IF AddU64(alignedOff, alignedLen) > size
                    THEN SubU64(size, alignedOff) ELSE alignedLen]

\* Buffer::mapRead, the aligned superset it maps.
mapReadRange(size, atom, offsetBytes, lengthBytes) ==
    LET alignedOff == alignDown(offsetBytes, atom)
        alignedLen == alignUp(AddU64(lengthBytes, SubU64(offsetBytes, alignedOff)), atom)
    IN  [offset |-> alignedOff,
         length |-> IF AddU64(alignedOff, alignedLen) > size
                    THEN SubU64(size, alignedOff) ELSE alignedLen]

\* The bytes of buffer b inside [offset, offset + length), the sum not wrapped:
\* what the driver touches for a VkMappedMemoryRange.
BytesOf(b, offset, length) ==
    { i \in 0 .. (size_[b] - 1) : offset <= i /\ i < offset + length }

\* The VkMappedMemoryRange Buffer::flushRange and Buffer::invalidateRange
\* build for (offset, sizeBytes) on buffer b: the offset aligned down, the
\* size aligned up and clamped to the buffer's size.
MappedMemoryRange(b, offset, sizeBytes) ==
    LET atomSize == nonCoherentAtomSize
        alignedOffset == alignDown(offset, atomSize)
        alignedSize == alignUp(AddU64(sizeBytes, SubU64(offset, alignedOffset)), atomSize)
    IN  [offset |-> alignedOffset,
         size |-> IF AddU64(alignedOffset, alignedSize) > size_[b]
                  THEN SubU64(size_[b], alignedOffset) ELSE alignedSize]

\* A flush that does nothing.
flushRangeNothing(b, offset, sizeBytes) ==
    {}

\* Buffer::flushRange: the bytes handed to vkFlushMappedMemoryRanges
\* (none on coherent memory).
flushRange(b, offset, sizeBytes) ==
    IF Coherent(b) THEN {}
    ELSE LET range == MappedMemoryRange(b, offset, sizeBytes)
         IN  BytesOf(b, range.offset, range.size)

\* An invalidation that covers nothing.
invalidateRangeNothing(b, offset, sizeBytes) ==
    {}

\* Buffer::invalidateRange: the bytes handed to vkInvalidateMappedMemoryRanges.
invalidateRange(b, offset, sizeBytes) ==
    IF Coherent(b) THEN {}
    ELSE LET range == MappedMemoryRange(b, offset, sizeBytes)
         IN  BytesOf(b, range.offset, range.size)

\* A default-constructed BufferMapping (buf_ and ptr_ null).  ptr is the
\* index of the buffer byte the pointer addresses, NullPtr for nullptr.
\* reqOffset and reqLength are history: the range the caller asked for.
NullPtr ==
    0 - 1
NoMapping ==
    [buf |-> 0, ptr |-> NullPtr, offset |-> 0, length |-> 0, write |-> FALSE,
     reqOffset |-> 0, reqLength |-> 0]

\* buf_ && ptr_
Live(m) ==
    m.buf # 0 /\ m.ptr # NullPtr

Returned(op, outcome) ==
    [op |-> op, outcome |-> outcome]

\* A failed call: nothing but `last` changes.
Fails(op, outcome) ==
    /\ last' = Returned(op, outcome)
    /\ UNCHANGED <<bufferConfig, deviceMem, hostView, mappings, released, terminated>>

\* An access test that forgets the direction of the mapping.
AccessModeRefusesNone(host, write) ==
    host = "None"

\* The access-mode test of Buffer::mapWrite (write TRUE) and Buffer::mapRead
\* (write FALSE) on a Buffer whose hostAccess_ is host: TRUE when the map is
\* refused.
AccessModeRefuses(host, write) ==
    IF write
    THEN host = "None" \/ (host # "Write" /\ host # "ReadWrite")
    ELSE host = "None" \/ (host # "Read" /\ host # "ReadWrite")

\* m = b.mapWrite(offsetBytes, lengthBytes), m a fresh BufferMapping in slot s.
\* mapOk is the result of vkMapMemory.
MapWrite(s, b, offsetBytes, lengthBytes, mapOk) ==
    /\ ~terminated
    /\ mappings[s] = NoMapping
    /\ IF lengthBytes = VK_WHOLE_SIZE /\ offsetBytes >= size_[b]
       THEN Fails("mapWrite", "RangeError") /\ mapCalls' = <<>>
       ELSE LET len == IF lengthBytes = VK_WHOLE_SIZE
                       THEN SubU64(size_[b], offsetBytes) ELSE lengthBytes
                r == mapWriteRange(size_[b], nonCoherentAtomSize, offsetBytes, len)
                mapped == [call |-> "vkMapMemory", buf |-> b,
                           bytes |-> BytesOf(b, r.offset, r.length)]
            IN  IF ~validateRange(size_[b], offsetBytes, len)
                THEN Fails("mapWrite", "RangeError") /\ mapCalls' = <<>>
                ELSE IF AccessModeRefuses(hostAccess_[b], TRUE)
                THEN Fails("mapWrite", "AccessModeError") /\ mapCalls' = <<>>
                ELSE IF ~mapOk
                THEN Fails("mapWrite", "DriverError") /\ mapCalls' = <<mapped>>
                ELSE /\ mappings' = [mappings EXCEPT ![s] =
                            [buf |-> b,
                             ptr |-> AddU64(r.offset, SubU64(offsetBytes, r.offset)),
                             offset |-> r.offset,
                             length |-> r.length,
                             write |-> TRUE,
                             reqOffset |-> offsetBytes,
                             reqLength |-> len]]
                     /\ last' = Returned("mapWrite", "ok")
                     /\ mapCalls' = <<mapped>>
                     /\ UNCHANGED <<bufferConfig, deviceMem, hostView, released, terminated>>

\* m = b.mapRead(offsetBytes, lengthBytes), m a fresh BufferMapping in slot s.
\* mapOk is the result of vkMapMemory, invalidateOk that of
\* vkInvalidateMappedMemoryRanges (VK_CHECK throws on its failure).
MapRead(s, b, offsetBytes, lengthBytes, mapOk, invalidateOk) ==
    /\ ~terminated
    /\ mappings[s] = NoMapping
    /\ IF lengthBytes = VK_WHOLE_SIZE /\ offsetBytes >= size_[b]
       THEN Fails("mapRead", "RangeError") /\ mapCalls' = <<>>
       ELSE LET len == IF lengthBytes = VK_WHOLE_SIZE
                       THEN SubU64(size_[b], offsetBytes) ELSE lengthBytes
                r == mapReadRange(size_[b], nonCoherentAtomSize, offsetBytes, len)
                inv == invalidateRange(b, r.offset, r.length)
                mapped == [call |-> "vkMapMemory", buf |-> b,
                           bytes |-> BytesOf(b, r.offset, r.length)]
                invalidated == [call |-> "vkInvalidateMappedMemoryRanges", buf |-> b,
                                bytes |-> inv]
            IN  IF ~validateRange(size_[b], offsetBytes, len)
                THEN Fails("mapRead", "RangeError") /\ mapCalls' = <<>>
                ELSE IF AccessModeRefuses(hostAccess_[b], FALSE)
                THEN Fails("mapRead", "AccessModeError") /\ mapCalls' = <<>>
                ELSE IF ~mapOk
                THEN Fails("mapRead", "DriverError") /\ mapCalls' = <<mapped>>
                ELSE IF ~Coherent(b) /\ ~invalidateOk /\ ~noExceptions
                THEN Fails("mapRead", "DriverError") /\ mapCalls' = <<mapped, invalidated>>
                ELSE /\ hostView' = [hostView EXCEPT ![b] =
                            [i \in DOMAIN hostView[b] |->
                                IF i \in inv /\ invalidateOk
                                THEN deviceMem[b][i] ELSE hostView[b][i]]]
                     /\ mappings' = [mappings EXCEPT ![s] =
                            [buf |-> b,
                             ptr |-> AddU64(r.offset, SubU64(offsetBytes, r.offset)),
                             offset |-> r.offset,
                             length |-> r.length,
                             write |-> FALSE,
                             reqOffset |-> offsetBytes,
                             reqLength |-> len]]
                     /\ last' = Returned("mapRead", "ok")
                     /\ mapCalls' = IF Coherent(b) THEN <<mapped>> ELSE <<mapped, invalidated>>
                     /\ UNCHANGED <<bufferConfig, deviceMem, released, terminated>>

\* The host stores byte v at m.data()[i], m the write mapping of slot s.
\* On coherent memory the device sees the store at once.
HostWrite(s, i, v) ==
    LET m == mappings[s]
        b == m.buf
        at == m.ptr + i
    IN  /\ ~terminated
        /\ Live(m)
        /\ m.write
        /\ i < m.reqLength
        /\ at < size_[b]
        /\ hostView' = [hostView EXCEPT ![b][at] = v]
        /\ deviceMem' = IF Coherent(b) THEN [deviceMem EXCEPT ![b][at] = v] ELSE deviceMem
        /\ released' = [released EXCEPT ![b] =
                [j \in (DOMAIN released[b]) \ {at} |-> released[b][j]]]
        /\ last' = Returned("store", "ok")
        /\ UNCHANGED <<bufferConfig, mappings, terminated, mapCalls>>

\* The driver calls a BufferMapping makes when it lets go of what it holds
\* (the destructor, and move assignment for the mapping assigned to): a
\* flush for a write mapping, which Buffer::flushRange does not issue on
\* coherent memory, then the unmap; nothing when buf_ or ptr_ is null.
\* ReleaseCallsUnmapFirst unmaps before it flushes.
ReleaseCallsUnmapFirst(m) ==
    IF ~Live(m) THEN <<>>
    ELSE <<[call |-> "vkUnmapMemory", buf |-> m.buf, bytes |-> {}]>>
         \o (IF m.write /\ ~Coherent(m.buf)
             THEN <<[call |-> "vkFlushMappedMemoryRanges", buf |-> m.buf,
                     bytes |-> flushRange(m.buf, m.offset, m.length)]>>
             ELSE <<>>)

ReleaseCalls(m) ==
    IF ~Live(m) THEN <<>>
    ELSE (IF m.write /\ ~Coherent(m.buf)
          THEN <<[call |-> "vkFlushMappedMemoryRanges", buf |-> m.buf,
                  bytes |-> flushRange(m.buf, m.offset, m.length)]>>
          ELSE <<>>)
         \o <<[call |-> "vkUnmapMemory", buf |-> m.buf, bytes |-> {}]>>

\* What a BufferMapping m that lets go of what it holds does to the memory,
\* flushOk the result of vkFlushMappedMemoryRanges: the calls made, whether
\* the flush threw (out of a noexcept function), the device's bytes and the
\* bytes handed back.
Release(m, flushOk) ==
    LET b == m.buf
        calls == ReleaseCalls(m)
        flushed == IF Len(calls) > 0 /\ calls[1].call = "vkFlushMappedMemoryRanges"
                   THEN calls[1].bytes ELSE {}
        handedBack == { i \in 0 .. (size_[b] - 1) :
                            m.reqOffset <= i /\ i < m.reqOffset + m.reqLength }
        threw == Live(m) /\ m.write /\ ~Coherent(b) /\ ~flushOk /\ ~noExceptions
    IN  IF ~Live(m)
        THEN [threw |-> FALSE, calls |-> calls, deviceMem |-> deviceMem, released |-> released]
        ELSE [threw |-> threw,
              calls |-> IF threw
                        THEN SubSeq(calls, 1, CHOOSE k \in 1 .. Len(calls) :
                                    calls[k].call = "vkFlushMappedMemoryRanges")
                        ELSE calls,
              deviceMem |-> IF threw THEN deviceMem
                            ELSE [deviceMem EXCEPT ![b] =
                                    [i \in DOMAIN deviceMem[b] |->
                                        IF i \in flushed /\ flushOk
                                        THEN hostView[b][i] ELSE deviceMem[b][i]]],
              released |-> IF threw \/ ~m.write THEN released
                           ELSE [released EXCEPT ![b] =
                                    [i \in (DOMAIN released[b]) \cup handedBack |->
                                        IF i \in handedBack THEN hostView[b][i]
                                        ELSE released[b][i]]]]

\* BufferMapping::~BufferMapping for the mapping of slot s: flush a write
\* mapping, then unmap.  flushOk is the result of vkFlushMappedMemoryRanges;
\* VK_CHECK throws on its failure, out of a noexcept destructor.
Unmap(s, flushOk) ==
    LET r == Release(mappings[s], flushOk)
    IN  /\ ~terminated
        /\ mapCalls' = r.calls
        /\ deviceMem' = r.deviceMem
        /\ released' = r.released
        /\ terminated' = r.threw
        /\ mappings' = IF r.threw THEN mappings ELSE [mappings EXCEPT ![s] = NoMapping]
        /\ last' = Returned("~BufferMapping", IF r.threw THEN "terminate" ELSE "ok")
        /\ UNCHANGED <<bufferConfig, hostView>>

\* mappings[s] = std::move(mappings[o]): BufferMapping::operator=(BufferMapping &&).
MoveAssignMapping(s, o, flushOk) ==
    LET r == Release(mappings[s], flushOk)
    IN  /\ ~terminated
        /\ IF s = o
           THEN /\ mapCalls' = <<>>
                /\ last' = Returned("BufferMapping::operator=", "ok")
                /\ UNCHANGED <<deviceMem, released, terminated, mappings>>
           ELSE /\ mapCalls' = r.calls
                /\ deviceMem' = r.deviceMem
                /\ released' = r.released
                /\ terminated' = r.threw
                /\ mappings' = IF r.threw THEN mappings
                               ELSE [mappings EXCEPT
                                        ![s] = mappings[o],
                                        ![o] = [@ EXCEPT !.buf = 0, !.ptr = NullPtr]]
                /\ last' = Returned("BufferMapping::operator=",
                                    IF r.threw THEN "terminate" ELSE "ok")
        /\ UNCHANGED <<bufferConfig, hostView>>

\* BufferMapping::BufferMapping(BufferMapping &&other): a new BufferMapping in
\* the free slot s, other the one of slot o.
MoveConstructMapping(s, o) ==
    /\ ~terminated
    /\ s # o
    /\ mappings[s] = NoMapping
    /\ mappings' = [mappings EXCEPT ![s] = mappings[o],
                                    ![o] = [@ EXCEPT !.buf = 0, !.ptr = NullPtr]]
    /\ mapCalls' = <<>>
    /\ last' = Returned("BufferMapping(BufferMapping &&)", "ok")
    /\ UNCHANGED <<bufferConfig, deviceMem, hostView, released, terminated>>

\* The Vulkan calls of Buffer::copyTo that can fail, in the order made.
CopyDriverCalls ==
    <<"vkAllocateCommandBuffers", "vkBeginCommandBuffer", "vkEndCommandBuffer",
      "vkCreateFence", "vkQueueSubmit", "vkWaitForFences">>

\* The memory of dst after the device copied bytes bytes of src at srcOffset
\* to dstOffset, the region inside both buffers.
CopiedBytes(src, dst, bytes, srcOffset, dstOffset) ==
    [i \in DOMAIN deviceMem[dst] |->
        IF dstOffset <= i /\ i < dstOffset + bytes
        THEN deviceMem[src][srcOffset + (i - dstOffset)]
        ELSE deviceMem[dst][i]]

\* The device's memory of dst becomes mem; the host sees it at once on
\* coherent memory.
DeviceWrites(dst, mem) ==
    /\ deviceMem' = [deviceMem EXCEPT ![dst] = mem]
    /\ hostView' = IF Coherent(dst) THEN [hostView EXCEPT ![dst] = mem] ELSE hostView
    /\ released' = [released EXCEPT ![dst] =
            [j \in { k \in DOMAIN released[dst] : mem[k] = deviceMem[dst][k] } |->
                released[dst][j]]]

\* src.copyTo(dst, bytesArg, srcOffset, dstOffset).  failAt is the Vulkan call
\* that fails, 0 when none does.  VK_CHECK throws on a failure of the first
\* five; a failed wait makes the call return false, the copy done or not.
\* A region that leaves either buffer is undefined behaviour of
\* vkCmdCopyBuffer, as is going on after a failed call when VK_CHECK only
\* logs: the destination may then hold anything.
\* submission.cmdBuf and submission.fence tell what the call left of its
\* transient command buffer and of its fence: "none" when the call never made
\* it, "live" when it made it and left without releasing it, "destroyed" when
\* it released it, "misused" when it released a handle it never obtained.
CopyTo(src, dst, bytesArg, srcOffset, dstOffset) ==
    LET transients(cmdBuf, fence) ==
            [submission EXCEPT !.op = "copyTo", !.cmdBuf = cmdBuf, !.fence = fence]
        left(failAt) ==
            IF failAt \in 1 .. (Len(CopyDriverCalls) - 1) /\ ~noExceptions
            THEN transients(IF failAt = 1 THEN "none" ELSE "live",
                            IF failAt = 5 THEN "live" ELSE "none")
            ELSE transients(IF failAt = 1 THEN "misused" ELSE "destroyed",
                            IF failAt = 4 THEN "misused" ELSE "destroyed")
    IN
    /\ ~terminated
    /\ UNCHANGED mapCalls
    /\ IF bytesArg = VK_WHOLE_SIZE /\ srcOffset >= size_[src]
       THEN Fails("copyTo", "RangeError") /\ submission' = transients("none", "none")
       ELSE LET bytes == IF bytesArg = VK_WHOLE_SIZE
                         THEN Min(SubU64(size_[src], srcOffset), SubU64(size_[dst], dstOffset))
                         ELSE bytesArg
                inside == srcOffset + bytes <= size_[src] /\ dstOffset + bytes <= size_[dst]
            IN  IF ~validateRange(size_[src], srcOffset, bytes)
                THEN Fails("copyTo", "RangeError") /\ submission' = transients("none", "none")
                ELSE IF ~validateRange(size_[dst], dstOffset, bytes)
                THEN Fails("copyTo", "RangeError") /\ submission' = transients("none", "none")
                ELSE \E failAt \in 0 .. Len(CopyDriverCalls) :
                     /\ submission' = left(failAt)
                     /\ IF failAt \in 1 .. (Len(CopyDriverCalls) - 1) /\ ~noExceptions
                        THEN Fails("copyTo", "DriverError")
                        ELSE IF ~inside \/ failAt \in 1 .. (Len(CopyDriverCalls) - 1)
                        THEN \E mem \in [DOMAIN deviceMem[dst] -> Bytes] :
                                /\ DeviceWrites(dst, mem)
                                /\ last' = Returned("copyTo",
                                        IF failAt = Len(CopyDriverCalls) THEN "false" ELSE "true")
                                /\ UNCHANGED <<bufferConfig, mappings, terminated>>
                        ELSE IF failAt = Len(CopyDriverCalls)
                        THEN \E done \in BOOLEAN :
                                /\ DeviceWrites(dst,
                                        IF done
                                        THEN CopiedBytes(src, dst, bytes, srcOffset, dstOffset)
                                        ELSE deviceMem[dst])
                                /\ last' = Returned("copyTo", "false")
                                /\ UNCHANGED <<bufferConfig, mappings, terminated>>
                        ELSE /\ DeviceWrites(dst, CopiedBytes(src, dst, bytes, srcOffset, dstOffset))
                             /\ last' = Returned("copyTo", "true")
                             /\ UNCHANGED <<bufferConfig, mappings, terminated>>

\* ---------------------------------------------------------- ComputeProgram
\* The construction stages, lowest first: the order in which the
\* constructor assigns them to initState_.
InitState ==
    <<"INIT_NONE", "INIT_SHADER", "INIT_SET_LAYOUTS", "INIT_PIPELINE_LAYOUT",
      "INIT_DESCRIPTOR_POOL", "INIT_PIPELINE", "INIT_COMMAND_POOL",
      "INIT_COMMAND_BUFFER", "INIT_FENCE", "INIT_QUERY_POOL", "INIT_COMPLETE">>

\* The enumerator's value.
Stage(name) ==
    CHOOSE i \in 1 .. Len(InitState) : InitState[i] = name

\* The single handles a ComputeProgram owns.
Handles ==
    {"shader_", "layout_", "dsp_", "pipeline_", "cmdPool_", "cmdBuf_", "fence_",
     "timestampQueryPool_"}

\* A driver object: "none" until it is created, then "live", then
\* "destroyed"; "misused" once it is destroyed without being live.
Created(obj) ==
    IF obj = "none" THEN "live" ELSE "misused"
Destroyed(obj) ==
    IF obj = "live" THEN "destroyed" ELSE "misused"

\* The members after the constructor's initializer list.  phase tells
\* whether the object exists ("none" before the constructor, "object" after
\* it returned, "thrown" after it threw, "destructed" after the destructor);
\* made, failedCall and teardowns are history: how the object came to be
\* ("default" by the default constructor, "invalid" with an info that failed
\* validation, "failed" with a driver call failing, "built", or "moved-from"),
\* the driver call of the constructor that failed, 0 when none did, and the
\* number of teardown() calls and destructor runs so far; pushes counts the
\* setPushConstants calls that copied data.  pcData_ is the payload
\* vector, byte k of it at place k + 1.  queries is the driver's view of the
\* two queries of the timestamp pool: which are available, and stamp, the
\* number of the submission whose timestamps they hold; lastTimestamps_ and
\* outNs, the caller's variable given to tryGetTimingNs, hold such a stamp,
\* 0 before any was stored.
NewProgram(info) ==
    [phase |-> "constructing",
     made |-> "",
     failedCall |-> 0,
     teardowns |-> 0,
     timestampInFlight_ |-> FALSE,
     lastTimestamps_ |-> 0,
     outNs |-> 0,
     queries |-> [available |-> <<FALSE, FALSE>>, stamp |-> 0],
     handle |-> [h \in Handles |-> FALSE],
     setLayouts_ |-> <<>>,
     descriptorSets_ |-> FALSE,
     pcCapacityBytes_ |-> info.pushConstantBytes,
     pcCfg_ |-> [sizeBytes |-> info.pushConstantBytes, offset |-> 0],
     pcData_ |-> <<>>,
     pushes |-> 0,
     local_ |-> info.local,
     groupsX_ |-> 1,
     groupsY_ |-> 1,
     groupsZ_ |-> 1,
     initialized_ |-> FALSE,
     tornDown_ |-> FALSE,
     initState_ |-> "INIT_NONE"]

\* No ComputeProgram has been constructed.
NoProgram ==
    [NewProgram([pushConstantBytes |-> 0, local |-> <<1, 1, 1>>]) EXCEPT !.phase = "none"]

\* A check of the bindings that holds every entry to the storage alignment.
ComputeBindingsValidateStorageOnly(entries) ==
    \A e \in 1 .. Len(entries) : \A b \in 1 .. Len(entries[e].buffers) :
        LET requiredAlignment == limits.minStorageBufferOffsetAlignment
        IN  ~(requiredAlignment > 0 /\ entries[e].buffers[b] % requiredAlignment # 0)

\* ComputeBindings::validate: TRUE when the bindings are accepted.  An entry
\* is its descriptor type and the offsets of its buffers.
ComputeBindingsValidate(entries) ==
    \A e \in 1 .. Len(entries) : \A b \in 1 .. Len(entries[e].buffers) :
        LET requiredAlignment ==
                IF entries[e].type = "UNIFORM_BUFFER"
                THEN limits.minUniformBufferOffsetAlignment
                ELSE IF entries[e].type = "STORAGE_BUFFER"
                THEN limits.minStorageBufferOffsetAlignment
                ELSE 0
        IN  ~(requiredAlignment > 0 /\ entries[e].buffers[b] % requiredAlignment # 0)

\* A validation that takes the product of the local size in 32 bits.
validateProductInWord(info) ==
    /\ ~(info.spirv = "null" \/ info.spirv = "empty")
    /\ ~(info.local[1] = 0 \/ info.local[2] = 0 \/ info.local[3] = 0)
    /\ ~(\/ info.local[1] > limits.maxComputeWorkGroupSize[1]
         \/ info.local[2] > limits.maxComputeWorkGroupSize[2]
         \/ info.local[3] > limits.maxComputeWorkGroupSize[3])
    /\ ~((info.local[1] * info.local[2] * info.local[3]) % (UINT32_MAX + 1)
            > limits.maxComputeWorkGroupInvocations)
    /\ (info.pushConstantBytes > 0 =>
            /\ ~(info.pushConstantBytes % 4 # 0)
            /\ ~(info.pushConstantBytes > limits.maxPushConstantsSize))
    /\ info.bindingsAligned

\* A validation that does not look at the push-constant size.
validateNoPushConstants(info) ==
    /\ info.spirv = "words"
    /\ \A a \in 1 .. 3 : info.local[a] # 0
    /\ \A a \in 1 .. 3 : info.local[a] <= limits.maxComputeWorkGroupSize[a]
    /\ info.local[1] * info.local[2] * info.local[3] <= limits.maxComputeWorkGroupInvocations
    /\ info.bindingsAligned

\* ComputeProgramCreateInfo::validate: TRUE when the info is accepted.
\* spirv is "null" (no binary), "empty", "words" (a non-empty binary whose
\* first word is 0x07230203) or "foreign" (a non-empty binary with another
\* first word); bindingsAligned is the result of ComputeBindings::validate.
\* The product of the local size is taken in 64 bits, twice the width of an
\* axis.
validate(info) ==
    /\ ~(info.spirv = "null" \/ info.spirv = "empty")
    /\ ~(info.local[1] = 0 \/ info.local[2] = 0 \/ info.local[3] = 0)
    /\ ~(\/ info.local[1] > limits.maxComputeWorkGroupSize[1]
         \/ info.local[2] > limits.maxComputeWorkGroupSize[2]
         \/ info.local[3] > limits.maxComputeWorkGroupSize[3])
    /\ ~((info.local[1] * info.local[2] * info.local[3]) % ((UINT32_MAX + 1) * (UINT32_MAX + 1))
            > limits.maxComputeWorkGroupInvocations)
    /\ (info.pushConstantBytes > 0 =>
            /\ ~(info.pushConstantBytes % 4 # 0)
            /\ ~(info.pushConstantBytes > limits.maxPushConstantsSize))
    /\ info.bindingsAligned

\* The elements of a set of numbers, lowest first (iteration of a std::map).
RECURSIVE Ascending(_)
Ascending(S) ==
    IF S = {} THEN <<>>
    ELSE LET m == CHOOSE x \in S : \A y \in S : x <= y
         IN  <<m>> \o Ascending(S \ {m})

\* setBindings.rbegin()->first + 1, 0 when there are no bindings.
SetLayoutCount(sets) ==
    IF sets = {} THEN 0
    ELSE (CHOOSE x \in sets : \A y \in sets : y <= x) + 1

\* What the constructor does inside its try block, in order: a driver call
\* that creates the object of a handle ("create"), one that creates the layout
\* of a set ("layout"), the allocation of the descriptor sets ("sets"), the
\* resize of setLayouts_ ("resize") or nothing ("none"); stage is what
\* initState_ is assigned after it, if anything.
ConstructionSteps(info) ==
    <<[call |-> "create", handle |-> "shader_", stage |-> "INIT_SHADER"],
      [call |-> "resize", size |-> SetLayoutCount(info.sets), stage |-> ""]>>
    \o [k \in 1 .. Cardinality(info.sets) |->
            [call |-> "layout", set |-> Ascending(info.sets)[k], stage |-> ""]]
    \o [k \in 1 .. (SetLayoutCount(info.sets) - Cardinality(info.sets)) |->
            [call |-> "layout",
             set |-> Ascending((0 .. (SetLayoutCount(info.sets) - 1)) \ info.sets)[k],
             stage |-> ""]]
    \o <<[call |-> "none", stage |-> "INIT_SET_LAYOUTS"],
         [call |-> "create", handle |-> "layout_", stage |-> "INIT_PIPELINE_LAYOUT"]>>
    \o (IF info.sets # {}
        THEN <<[call |-> "create", handle |-> "dsp_", stage |-> "INIT_DESCRIPTOR_POOL"],
               [call |-> "sets", stage |-> ""]>>
        ELSE <<>>)
    \o <<[call |-> "create", handle |-> "pipeline_", stage |-> "INIT_PIPELINE"],
         [call |-> "create", handle |-> "cmdPool_", stage |-> "INIT_COMMAND_POOL"],
         [call |-> "create", handle |-> "cmdBuf_", stage |-> "INIT_COMMAND_BUFFER"],
         [call |-> "create", handle |-> "fence_", stage |-> "INIT_FENCE"]>>
    \o (IF limits.supportsTimestamps
        THEN <<[call |-> "create", handle |-> "timestampQueryPool_",
                stage |-> "INIT_QUERY_POOL"]>>
        ELSE <<>>)

IsDriverCall(step) ==
    step.call \in {"create", "layout", "sets"}

\* The number of driver calls among the steps.
RECURSIVE DriverCalls(_)
DriverCalls(steps) ==
    IF steps = <<>> THEN 0
    ELSE (IF IsDriverCall(Head(steps)) THEN 1 ELSE 0) + DriverCalls(Tail(steps))

\* One step of the constructor on c = [p, objects, layouts, calls, threw]:
\* the program's members, the driver's objects and layouts, and the driver
\* calls made so far.  ok is the result of the step's driver call; a handle
\* stays null when its creation fails.
ConstructionStep(c, step, ok) ==
    LET staged == IF step.stage = "" THEN c
                  ELSE [c EXCEPT !.p.initState_ = step.stage]
    IN  IF step.call = "none" THEN staged
        ELSE IF step.call = "resize"
        THEN [staged EXCEPT !.p.setLayouts_ = [i \in 1 .. step.size |-> FALSE]]
        ELSE IF step.call = "sets"
        THEN [staged EXCEPT !.p.descriptorSets_ = TRUE, !.calls = @ + 1]
        ELSE IF ~ok THEN [staged EXCEPT !.calls = @ + 1]
        ELSE IF step.call = "layout"
        THEN [staged EXCEPT !.p.setLayouts_[step.set + 1] = TRUE,
                            !.layouts[step.set] = Created(@),
                            !.calls = @ + 1]
        ELSE [staged EXCEPT !.p.handle[step.handle] = TRUE,
                            !.objects[step.handle] = Created(@),
                            !.calls = @ + 1]

\* vkCheck: a failed driver call throws, or is only logged in the
\* EASYVK_NO_EXCEPTIONS build.
vkCheckThrows(ok) ==
    ~ok /\ ~noExceptions

\* The try block: the steps in order, the failAt-th driver call failing
\* (none when failAt is 0), up to the first throw.
RECURSIVE Construction(_, _, _)
Construction(c, steps, failAt) ==
    IF steps = <<>>
    THEN [c EXCEPT !.p.initState_ = "INIT_COMPLETE", !.p.initialized_ = TRUE]
    ELSE LET step == Head(steps)
             ok == ~(IsDriverCall(step) /\ c.calls + 1 = failAt)
         IN  IF vkCheckThrows(ok)
             THEN [c EXCEPT !.threw = TRUE, !.calls = @ + 1]
             ELSE Construction(ConstructionStep(c, step, ok), Tail(steps), failAt)

\* A teardown that destroys every handle, null or not, and keeps no record
\* of what it destroyed.
teardownFromEveryHandle(c, state) ==
    [c EXCEPT !.objects = [h \in Handles |-> Destroyed(c.objects[h])],
              !.p.initialized_ = FALSE]

\* ComputeProgram::teardownFrom(state), on c as above; c.deviceLive tells
\* whether device_->vk() is non-null.  Destroying a pool frees what was
\* allocated from it.
teardownFrom(c, state) ==
    LET from(name) == Stage(state) >= Stage(name)
        gone == [h \in Handles |->
                    CASE h = "timestampQueryPool_" -> from("INIT_QUERY_POOL") /\ c.p.handle[h]
                      [] h = "fence_" -> from("INIT_FENCE") /\ c.p.handle[h]
                      [] h = "cmdBuf_" -> /\ from("INIT_COMMAND_BUFFER")
                                          /\ c.p.handle[h]
                                          /\ c.p.handle["cmdPool_"]
                      [] h = "cmdPool_" -> from("INIT_COMMAND_POOL") /\ c.p.handle[h]
                      [] h = "pipeline_" -> from("INIT_PIPELINE") /\ c.p.handle[h]
                      [] h = "layout_" -> from("INIT_PIPELINE_LAYOUT") /\ c.p.handle[h]
                      [] h = "dsp_" -> from("INIT_DESCRIPTOR_POOL") /\ c.p.handle[h]
                      [] h = "shader_" -> from("INIT_SHADER") /\ c.p.handle[h]]
        layoutsGone == from("INIT_SET_LAYOUTS")
    IN  IF ~c.deviceLive
        THEN [c EXCEPT !.p.initialized_ = FALSE, !.p.tornDown_ = TRUE]
        ELSE
        [c EXCEPT
            !.objects = [h \in Handles |->
                IF gone[h] THEN Destroyed(c.objects[h])
                ELSE IF h = "cmdBuf_" /\ gone["cmdPool_"] /\ c.objects[h] = "live"
                THEN "destroyed"
                ELSE c.objects[h]],
            !.layouts = [i \in DOMAIN c.layouts |->
                IF layoutsGone /\ i + 1 \in DOMAIN c.p.setLayouts_ /\ c.p.setLayouts_[i + 1]
                THEN Destroyed(c.layouts[i]) ELSE c.layouts[i]],
            !.p.handle = [h \in Handles |-> c.p.handle[h] /\ ~gone[h]],
            !.p.setLayouts_ = IF layoutsGone THEN <<>> ELSE c.p.setLayouts_,
            !.p.initialized_ = FALSE,
            !.p.tornDown_ = TRUE]

\* EVK_FAIL and EVK_FAIL_VOID: the call ends here with the error, thrown or,
\* in the EASYVK_NO_EXCEPTIONS build, recorded and answered with a failure
\* value; nothing else changes.
EVK_FAIL(op, error) ==
    /\ last' = Returned(op, error)
    /\ UNCHANGED <<program, driverObjects, driverSetLayouts, recorded, submits>>

\* The push-constant sizes programs are constructed with, for devices whose
\* maxPushConstantsSize is 4 or 8.
PushConstantSizes ==
    {0, 2, 4, 6, 8, 12}

\* The infos programs are constructed with.
CreateInfos ==
    [spirv : {"null", "empty", "words"},
     local : {<<1, 1, 1>>, <<1, 0, 1>>, <<1, 1, 3>>, <<2, 2, 2>>},
     pushConstantBytes : PushConstantSizes,
     sets : SUBSET (0 .. MaxSetIndex),
     bindingsAligned : BOOLEAN]

\* The most driver calls a construction makes.
MaxConstructionCalls ==
    MaxSetIndex + 10

\* ComputeProgram::ComputeProgram(dev, info), the failAt-th driver call of the
\* try block failing (none when failAt is 0).  A throw leaves no object
\* behind; the members it had are kept as they were at the throw.
Construct(info, failAt) ==
    LET steps == ConstructionSteps(info)
        c0 == [p |-> NewProgram(info), objects |-> driverObjects,
               layouts |-> driverSetLayouts, calls |-> 0, threw |-> FALSE,
               deviceLive |-> TRUE]
        c1 == Construction([c0 EXCEPT !.p.pcData_ = [k \in 1 .. info.pushConstantBytes |-> 0]],
                           steps, failAt)
        c == IF c1.threw THEN teardownFrom(c1, c1.p.initState_) ELSE c1
    IN  /\ program.phase = "none"
        /\ IF ~validate(info)
           THEN /\ failAt = 0
                /\ program' = [c0.p EXCEPT !.phase = IF noExceptions THEN "object" ELSE "thrown",
                                           !.made = "invalid"]
                /\ last' = Returned("ComputeProgram", "ConfigurationError")
                /\ UNCHANGED <<driverObjects, driverSetLayouts, recorded, submits>>
           ELSE /\ failAt <= DriverCalls(steps)
                /\ program' = [c.p EXCEPT !.phase = IF c1.threw THEN "thrown" ELSE "object",
                                          !.made = IF failAt = 0 THEN "built" ELSE "failed",
                                          !.failedCall = failAt]
                /\ driverObjects' = c.objects
                /\ driverSetLayouts' = c.layouts
                /\ last' = Returned("ComputeProgram",
                                IF failAt = 0 THEN "ok"
                                ELSE IF c1.threw THEN "DriverError" ELSE "DriverErrorLogged")
                /\ UNCHANGED <<recorded, submits>>
        /\ UNCHANGED <<limits, noExceptions, selectVars, bufferOnly, ownershipVars, submission, attempts>>

\* A check of the workgroup counts that tests every axis against the limit
\* of the first.
setWorkgroupsAcceptsFirstLimit(x, y, z) ==
    /\ ~(x = 0 \/ y = 0 \/ z = 0)
    /\ ~(\/ x > limits.maxComputeWorkGroupCount[1]
         \/ y > limits.maxComputeWorkGroupCount[1]
         \/ z > limits.maxComputeWorkGroupCount[1])

\* ComputeProgram::setWorkgroups, its two checks: TRUE when the counts are
\* accepted.
setWorkgroupsAccepts(x, y, z) ==
    /\ ~(x = 0 \/ y = 0 \/ z = 0)
    /\ ~(\/ x > limits.maxComputeWorkGroupCount[1]
         \/ y > limits.maxComputeWorkGroupCount[2]
         \/ z > limits.maxComputeWorkGroupCount[3])

\* program.setWorkgroups(x, y, z)
SetWorkgroups(x, y, z) ==
    /\ program.phase = "object"
    /\ IF ~setWorkgroupsAccepts(x, y, z)
       THEN EVK_FAIL("setWorkgroups", "ConfigurationError")
       ELSE /\ program' = [program EXCEPT !.groupsX_ = x, !.groupsY_ = y, !.groupsZ_ = z]
            /\ last' = Returned("setWorkgroups", "ok")
            /\ UNCHANGED <<driverObjects, driverSetLayouts, recorded, submits>>
    /\ UNCHANGED <<limits, noExceptions, selectVars, bufferOnly, ownershipVars, submission, attempts>>

\* PushConstantConfig::validate(maxSize, error) for the config {sizeBytes,
\* offset}: TRUE when it is accepted.  The sum is a uint32_t sum.
PushConstantConfigValidate(sizeBytes, offset, maxSize) ==
    /\ ~(sizeBytes > 0 /\ sizeBytes % 4 # 0)
    /\ ~(offset % 4 # 0)
    /\ ~((sizeBytes + offset) % (UINT32_MAX + 1) > maxSize)

\* program.setPushConstantConfig(PushConstantConfig(sizeBytes, offset)) on a
\* program that has a device.
SetPushConstantConfig(sizeBytes, offset) ==
    /\ program.phase = "object"
    /\ program.made # "default"
    /\ IF ~PushConstantConfigValidate(sizeBytes, offset, limits.maxPushConstantsSize)
       THEN EVK_FAIL("setPushConstantConfig", "ConfigurationError")
       ELSE /\ program' = [program EXCEPT
                            !.pcCfg_ = [sizeBytes |-> sizeBytes, offset |-> offset],
                            !.pcData_ = IF sizeBytes > 0
                                        THEN [k \in 1 .. sizeBytes |-> 0] ELSE @]
            /\ last' = Returned("setPushConstantConfig", "ok")
            /\ UNCHANGED <<driverObjects, driverSetLayouts, recorded, submits>>
    /\ UNCHANGED <<limits, noExceptions, selectVars, bufferOnly, ownershipVars, submission, attempts>>

\* A setPushConstants that copies the data to the start of the payload,
\* whatever the offset.
SetPushConstantsAtStart(dataNull, first, bytes, offset) ==
    /\ program.phase = "object"
    /\ program.pushes < MaxPushes
    /\ IF dataNull /\ bytes > 0
       THEN EVK_FAIL("setPushConstants", "ConfigurationError")
       ELSE IF dataNull \/ bytes = 0
       THEN /\ last' = Returned("setPushConstants", "ok")
            /\ UNCHANGED <<program, driverObjects, driverSetLayouts, recorded, submits>>
       ELSE IF offset > program.pcCfg_.sizeBytes
               \/ bytes > program.pcCfg_.sizeBytes - offset
       THEN /\ last' = Returned("setPushConstants", "RangeError")
            /\ UNCHANGED <<program, driverObjects, driverSetLayouts, recorded, submits>>
       ELSE /\ last' = Returned("setPushConstants", "ok")
            /\ program' = [program EXCEPT
                            !.pcData_ = [k \in 1 .. Len(@) |->
                                            IF k - 1 < bytes THEN PushData(first, k - 1)
                                            ELSE @[k]],
                            !.pushes = @ + 1]
            /\ UNCHANGED <<driverObjects, driverSetLayouts, recorded, submits>>
    /\ UNCHANGED <<limits, noExceptions, selectVars, bufferOnly, ownershipVars, submission, attempts>>

\* A setPushConstants without the test of the span against the configured
\* size.
SetPushConstantsUnchecked(dataNull, first, bytes, offset) ==
    /\ program.phase = "object"
    /\ program.pushes < MaxPushes
    /\ IF dataNull /\ bytes > 0
       THEN EVK_FAIL("setPushConstants", "ConfigurationError")
       ELSE IF dataNull \/ bytes = 0
       THEN /\ last' = Returned("setPushConstants", "ok")
            /\ UNCHANGED <<program, driverObjects, driverSetLayouts, recorded, submits>>
       ELSE /\ last' = Returned("setPushConstants", "ok")
            /\ program' = [program EXCEPT
                            !.pcData_ = [k \in 1 .. Len(@) |->
                                            IF k - 1 >= offset /\ k - 1 < offset + bytes
                                            THEN PushData(first, k - 1 - offset)
                                            ELSE @[k]],
                            !.pushes = @ + 1]
            /\ UNCHANGED <<driverObjects, driverSetLayouts, recorded, submits>>
    /\ UNCHANGED <<limits, noExceptions, selectVars, bufferOnly, ownershipVars, submission, attempts>>

\* program.setPushConstants(data, bytes, offset).  data is null when dataNull
\* is TRUE; otherwise it points to bytes bytes, byte k of them being
\* PushData(first, k).
SetPushConstants(dataNull, first, bytes, offset) ==
    LET resized == IF Len(program.pcData_) < program.pcCfg_.sizeBytes
                   THEN [k \in 1 .. program.pcCfg_.sizeBytes |-> 0]
                   ELSE program.pcData_
    IN  /\ program.phase = "object"
        /\ program.pushes < MaxPushes
        /\ IF dataNull /\ bytes > 0
           THEN EVK_FAIL("setPushConstants", "ConfigurationError")
           ELSE IF dataNull \/ bytes = 0
           THEN /\ last' = Returned("setPushConstants", "ok")
                /\ program' = [program EXCEPT !.pcData_ = resized]
                /\ UNCHANGED <<driverObjects, driverSetLayouts, recorded, submits>>
           ELSE IF offset > program.pcCfg_.sizeBytes
                   \/ bytes > program.pcCfg_.sizeBytes - offset
           THEN /\ last' = Returned("setPushConstants", "RangeError")
                /\ program' = [program EXCEPT !.pcData_ = resized]
                /\ UNCHANGED <<driverObjects, driverSetLayouts, recorded, submits>>
           ELSE /\ last' = Returned("setPushConstants", "ok")
                /\ program' = [program EXCEPT
                                !.pcData_ = [k \in 1 .. Len(resized) |->
                                                IF k - 1 >= offset /\ k - 1 < offset + bytes
                                                THEN PushData(first, k - 1 - offset)
                                                ELSE resized[k]],
                                !.pushes = @ + 1]
                /\ UNCHANGED <<driverObjects, driverSetLayouts, recorded, submits>>
        /\ UNCHANGED <<limits, noExceptions, selectVars, bufferOnly, ownershipVars, submission, attempts>>

\* A recording that puts the dispatch before the first barrier and always
\* ends with the second one.
submitAsyncCommandsDispatchFirst(addHostBarrier, enableTimestamps) ==
    <<[call |-> "vkCmdBindPipeline", args |-> <<>>],
      [call |-> "vkCmdDispatch",
       args |-> <<program.groupsX_, program.groupsY_, program.groupsZ_>>],
      [call |-> "vkCmdPipelineBarrier host write to shader read", args |-> <<>>],
      [call |-> "vkCmdPipelineBarrier shader write to host read", args |-> <<>>]>>

\* A recording that writes the second timestamp after the final barrier.
submitAsyncCommandsLateTimestamp(addHostBarrier, enableTimestamps) ==
    LET timed == enableTimestamps /\ program.handle["timestampQueryPool_"]
        call(name) == <<[call |-> name, args |-> <<>>]>>
    IN  (IF timed THEN call("vkCmdResetQueryPool") ELSE <<>>)
        \o call("vkCmdBindPipeline")
        \o (IF program.descriptorSets_ THEN call("vkCmdBindDescriptorSets") ELSE <<>>)
        \o (IF program.pcCfg_.sizeBytes > 0
            THEN <<[call |-> "vkCmdPushConstants",
                    args |-> <<program.pcCfg_.offset, program.pcCfg_.sizeBytes>>]>>
            ELSE <<>>)
        \o call("vkCmdPipelineBarrier host write to shader read")
        \o (IF timed THEN call("vkCmdWriteTimestamp 0") ELSE <<>>)
        \o <<[call |-> "vkCmdDispatch",
              args |-> <<program.groupsX_, program.groupsY_, program.groupsZ_>>]>>
        \o (IF addHostBarrier
            THEN call("vkCmdPipelineBarrier shader write to host read") ELSE <<>>)
        \o (IF timed THEN call("vkCmdWriteTimestamp 1") ELSE <<>>)

\* The commands ComputeProgram::submitAsync records between
\* vkBeginCommandBuffer and vkEndCommandBuffer, each with the arguments that
\* matter.
submitAsyncCommands(addHostBarrier, enableTimestamps) ==
    LET timed == enableTimestamps /\ program.handle["timestampQueryPool_"]
        call(name) == <<[call |-> name, args |-> <<>>]>>
    IN  (IF timed THEN call("vkCmdResetQueryPool") ELSE <<>>)
        \o call("vkCmdBindPipeline")
        \o (IF limits.debugUtils
            THEN IF addHostBarrier
                 THEN call("vkCmdBeginDebugUtilsLabelEXT easyvk::dispatch")
                 ELSE call("vkCmdBeginDebugUtilsLabelEXT easyvk::dispatchNoHostBarrier")
            ELSE <<>>)
        \o (IF program.descriptorSets_ THEN call("vkCmdBindDescriptorSets") ELSE <<>>)
        \o (IF program.pcCfg_.sizeBytes > 0
            THEN <<[call |-> "vkCmdPushConstants",
                    args |-> <<program.pcCfg_.offset, program.pcCfg_.sizeBytes>>]>>
            ELSE <<>>)
        \o call("vkCmdPipelineBarrier host write to shader read")
        \o (IF timed THEN call("vkCmdWriteTimestamp 0") ELSE <<>>)
        \o <<[call |-> "vkCmdDispatch",
              args |-> <<program.groupsX_, program.groupsY_, program.groupsZ_>>]>>
        \o (IF timed THEN call("vkCmdWriteTimestamp 1") ELSE <<>>)
        \o (IF addHostBarrier
            THEN call("vkCmdPipelineBarrier shader write to host read") ELSE <<>>)
        \o (IF limits.debugUtils THEN call("vkCmdEndDebugUtilsLabelEXT") ELSE <<>>)

\* The Vulkan calls of a dispatch that can fail, in the order made: five in
\* submitAsync under VK_CHECK, then the wait in Device::wait, then the
\* readback of dispatchWithTimingNs.
DispatchDriverCalls ==
    <<"vkResetCommandBuffer", "vkBeginCommandBuffer", "vkEndCommandBuffer",
      "vkCreateFence", "vkQueueSubmit", "vkWaitForFences", "vkGetQueryPoolResults">>

\* ComputeProgram::submitAsync on an initialized program: the driver calls
\* it makes, in order.  failAt is the call of DispatchDriverCalls that fails,
\* 0 when none does; a call failing under VK_CHECK throws, or is logged and
\* the function goes on.
submitAsync(addHostBarrier, enableTimestamps, failAt) ==
    LET call(name) == <<[call |-> name, args |-> <<>>]>>
        all == call("vkResetCommandBuffer") \o call("vkBeginCommandBuffer")
               \o submitAsyncCommands(addHostBarrier, enableTimestamps)
               \o call("vkEndCommandBuffer") \o call("vkCreateFence")
               \o call("vkQueueSubmit")
        failed == CHOOSE i \in 1 .. Len(all) : all[i].call = DispatchDriverCalls[failAt]
    IN  IF failAt \in 1 .. 5 /\ vkCheckThrows(FALSE)
        THEN SubSeq(all, 1, failed)
        ELSE all

\* ComputeProgram::supportsTimestamps
supportsTimestamps ==
    limits.supportsTimestamps /\ program.handle["timestampQueryPool_"]

\* The four dispatch entry points.
DispatchOps ==
    {"dispatch", "dispatchNoHostBarrier", "dispatchWithTimingNs", "dispatchWithTimingAsync"}

\* A SubmitHandle the caller holds and the submission behind it.  handle
\* tells which of its members are non-null; fence and cmdBuf are the driver's
\* view of the fence and of the transient command buffer; work is the state of
\* the submitted commands ("none" when nothing reached the queue); waitResult
\* is what vkWaitForFences last answered for it, "" when it was not called;
\* waits counts the Device::wait calls made on the handle;
\* copy is the region of a submitted copy, undefined telling that the
\* submission has undefined behaviour; queried tells that
\* dispatchWithTimingNs called vkGetQueryPoolResults for it and ns is what the
\* call returned: "0.0", "elapsed" for the tick delta times the timestamp
\* period, "none" when it returned nothing.
\* This is SubmitHandle(): both members null.
NoSubmission ==
    [op |-> "", handle |-> [fence |-> FALSE, cmdBuf |-> FALSE],
     fence |-> "none", cmdBuf |-> "none", work |-> "none", waitResult |-> "",
     waits |-> 0,
     copy |-> [src |-> 0, dst |-> 0, bytes |-> 0, srcOffset |-> 0, dstOffset |-> 0,
               undefined |-> FALSE],
     queried |-> FALSE, ns |-> "none"]

\* A wait that reports success without calling vkWaitForFences.
waitWithoutWaiting(sub, result) ==
    [sub |-> [sub EXCEPT !.waits = @ + 1,
                         !.cmdBuf = IF sub.handle.cmdBuf THEN Destroyed(@) ELSE @,
                         !.fence = Destroyed(@)],
     ret |-> TRUE]

\* Device::wait(h, timeoutNs) on the handle of sub; result is what
\* vkWaitForFences answers.  ret is the value returned.
wait(sub, result) ==
    IF ~sub.handle.fence
    THEN [sub |-> [sub EXCEPT !.waits = @ + 1], ret |-> FALSE]
    ELSE [sub |-> [sub EXCEPT !.waits = @ + 1,
                              !.waitResult = result,
                              !.cmdBuf = IF sub.handle.cmdBuf THEN Destroyed(@) ELSE @,
                              !.fence = Destroyed(@)],
          ret |-> result = "VK_SUCCESS"]

\* The results of vkWaitForFences, and of them
\* what vkWaitForFences can answer for sub with the timeout timeoutNs, the
\* work finishing during the wait when finishes is TRUE.  A fence that is not
\* a live fence makes the call undefined: any answer.  An unsignalled fence
\* nothing will signal never ends a wait without timeout.
WaitAnswers(sub, timeoutNs, finishes) ==
    LET WaitResults == {"VK_SUCCESS", "VK_TIMEOUT", "VK_ERROR_DEVICE_LOST"}
    IN  IF ~sub.handle.fence \/ sub.fence # "live" THEN WaitResults
        ELSE { r \in WaitResults :
                /\ r = "VK_SUCCESS" => (sub.work = "done" \/ finishes)
                /\ r = "VK_TIMEOUT" => (timeoutNs # UINT64_MAX /\ sub.work # "done"
                                        /\ ~finishes) }

\* The program p after the commands of log, the n-th submission, have run on
\* the device: vkCmdResetQueryPool and the two vkCmdWriteTimestamp leave both
\* queries available with the timestamps of this submission.
Timestamped(p, log, n) ==
    IF \E k \in 1 .. Len(log) : log[k].call = "vkCmdWriteTimestamp 1"
    THEN [p EXCEPT !.queries = [available |-> <<TRUE, TRUE>>, stamp |-> n]]
    ELSE p

\* The submitted work of sub runs to completion.  A copy writes its region
\* of the destination, or anything when its behaviour is undefined.  A
\* dispatched shader, with the three buffers of example/vect-add.cpp bound (1
\* and 2 the operands, 3 the result), stores c[i] = a[i] + b[i]; log is the
\* command buffer it was submitted with.  The stores are made visible to the
\* host by the barrier from shader writes to host reads; without it they may
\* or may not be.
Execute(sub, log) ==
    IF sub.op = "copyToAsync"
    THEN IF sub.copy.undefined
         THEN \E mem \in [DOMAIN deviceMem[sub.copy.dst] -> Bytes] :
                DeviceWrites(sub.copy.dst, mem)
         ELSE DeviceWrites(sub.copy.dst,
                  CopiedBytes(sub.copy.src, sub.copy.dst, sub.copy.bytes,
                              sub.copy.srcOffset, sub.copy.dstOffset))
    ELSE IF 3 \in DOMAIN size_
    THEN \E visible \in BOOLEAN :
            /\ (\E k \in 1 .. Len(log) :
                    log[k].call = "vkCmdPipelineBarrier shader write to host read") => visible
            /\ DeviceWrites(3, [i \in DOMAIN deviceMem[3] |->
                    IF visible /\ i \in DOMAIN deviceMem[1] /\ i \in DOMAIN deviceMem[2]
                    THEN deviceMem[1][i] + deviceMem[2][i]
                    ELSE deviceMem[3][i]])
    ELSE UNCHANGED <<deviceMem, hostView, released>>

\* program.dispatch(), program.dispatchNoHostBarrier(),
\* program.dispatchWithTimingNs() or program.dispatchWithTimingAsync():
\* submitAsync and, but for the last, Device::wait without timeout;
\* dispatchWithTimingNs then reads the two timestamps back, and without
\* timestamp support calls dispatch() and returns 0.0.  failAt is the Vulkan
\* call that fails, 0 when none does; finishes tells whether the work is done
\* when the call returns.  The call is made while fewer than limit
\* submissions have reached the queue: the code has no such test.
DispatchUpTo(limit, op, failAt, finishes) ==
    LET timed == op \in {"dispatchWithTimingNs", "dispatchWithTimingAsync"}
                 /\ supportsTimestamps
        sync == op # "dispatchWithTimingAsync"
        inFlight == [program EXCEPT !.timestampInFlight_ =
                        @ \/ (op = "dispatchWithTimingAsync" /\ timed)]
        \* recording the push constants first makes a payload that is
        \* shorter than the configured size that long, all zero
        pushed == [inFlight EXCEPT !.pcData_ =
                        IF Len(@) < program.pcCfg_.sizeBytes
                        THEN [k \in 1 .. program.pcCfg_.sizeBytes |-> 0] ELSE @]
        thrown == failAt \in 1 .. 5 /\ vkCheckThrows(FALSE)
        log == submitAsync(op # "dispatchNoHostBarrier", timed, failAt)
        \* the handle submitAsync returns; after a failed vkCreateFence that
        \* was only logged, asyncFence is an uninitialized value
        handle == [NoSubmission EXCEPT
                        !.op = op,
                        !.handle.fence = TRUE,
                        !.fence = IF failAt = 4 THEN "none" ELSE "live",
                        !.work = IF failAt \in 1 .. 5 THEN "none" ELSE "pending"]
        result == IF failAt \in {5, 6} THEN "VK_ERROR_DEVICE_LOST" ELSE "VK_SUCCESS"
        w == IF sync THEN wait(handle, result) ELSE [sub |-> handle, ret |-> TRUE]
        done == handle.work = "pending" /\ finishes
        \* dispatchWithTimingNs reads the timestamps when the pool exists and
        \* the wait returned true
        queried == op = "dispatchWithTimingNs" /\ timed /\ w.ret
    IN  /\ program.phase = "object"
        /\ submits < limit
        /\ ~sync => failAt # 6
        /\ failAt = 7 => op = "dispatchWithTimingNs" /\ timed
        /\ IF ~program.initialized_
           THEN /\ failAt = 0
                /\ ~finishes
                /\ program' = inFlight
                /\ last' = Returned(op, "StateError")
                /\ UNCHANGED <<driverObjects, driverSetLayouts, recorded, submits,
                               submission, deviceMem, hostView, released>>
           ELSE IF thrown
           THEN /\ ~finishes
                /\ program' = IF failAt \in 1 .. 2 THEN inFlight ELSE pushed
                /\ recorded' = log
                \* the fence made before a vkQueueSubmit that throws is dropped
                /\ submission' = IF failAt = 5
                                 THEN [handle EXCEPT !.op = "", !.handle.fence = FALSE]
                                 ELSE submission
                /\ last' = Returned(op, "DriverError")
                /\ UNCHANGED <<driverObjects, driverSetLayouts, submits,
                               deviceMem, hostView, released>>
           ELSE /\ w.sub.waitResult # "" =>
                        w.sub.waitResult \in WaitAnswers(handle, UINT64_MAX, finishes)
                /\ finishes => sync /\ handle.work = "pending"
                /\ failAt = 7 => queried
                /\ program' = IF done THEN Timestamped(pushed, log, submits + 1)
                                      ELSE pushed
                /\ recorded' = log
                /\ submits' = IF failAt = 5 THEN submits ELSE submits + 1
                /\ submission' = [w.sub EXCEPT
                        !.work = IF done THEN "done" ELSE @,
                        !.queried = queried,
                        !.ns = IF op # "dispatchWithTimingNs" THEN "none"
                               ELSE IF ~timed THEN "0.0"
                               ELSE IF ~queried THEN "none"
                               ELSE IF failAt = 7 THEN "0.0"
                               ELSE "elapsed"]
                /\ IF done THEN Execute(handle, log)
                           ELSE UNCHANGED <<deviceMem, hostView, released>>
                /\ last' = Returned(op,
                        IF failAt \in 1 .. 5 THEN "DriverError"
                        ELSE IF ~w.ret /\ op = "dispatchWithTimingNs" /\ timed THEN "DriverError"
                        ELSE IF ~w.ret /\ op # "dispatchWithTimingNs" THEN "false"
                        ELSE "ok")
                /\ UNCHANGED <<driverObjects, driverSetLayouts>>
        /\ UNCHANGED <<limits, noExceptions, selectVars, bufferConfig, mappings, terminated,
                       mapCalls, ownershipVars, attempts>>

\* The dispatch calls of a behaviour that submits at most MaxSubmits times.
Dispatch(op, failAt, finishes) ==
    DispatchUpTo(MaxSubmits, op, failAt, finishes)

\* h = src.copyToAsync(dst, bytesArg, srcOffset, dstOffset).  failAt is the
\* call of CopyDriverCalls that fails (the first five are made), 0 when none
\* does.  VK_CHECK throws on a failure, leaving behind what was created; when
\* it only logs, the function goes on with the values it has, which is
\* undefined behaviour, as is a region that leaves either buffer.
CopyToAsync(src, dst, bytesArg, srcOffset, dstOffset, failAt) ==
    LET bytes == IF bytesArg = VK_WHOLE_SIZE
                 THEN Min(SubU64(size_[src], srcOffset), SubU64(size_[dst], dstOffset))
                 ELSE bytesArg
        inside == srcOffset + bytes <= size_[src] /\ dstOffset + bytes <= size_[dst]
        refused == \/ (bytesArg = VK_WHOLE_SIZE /\ srcOffset >= size_[src])
                   \/ ~validateRange(size_[src], srcOffset, bytes)
                   \/ ~validateRange(size_[dst], dstOffset, bytes)
        made == [NoSubmission EXCEPT
                    !.cmdBuf = IF failAt = 1 THEN "none" ELSE "live",
                    !.fence = IF failAt \in 1 .. 3 /\ ~noExceptions THEN "none"
                              ELSE IF failAt = 4 THEN "none" ELSE "live",
                    !.copy = [src |-> src, dst |-> dst, bytes |-> bytes,
                              srcOffset |-> srcOffset, dstOffset |-> dstOffset,
                              undefined |-> ~inside \/ failAt # 0]]
    IN  /\ ~terminated
        /\ submits < MaxSubmits
        /\ IF refused
           THEN /\ failAt = 0
                /\ last' = Returned("copyToAsync", "RangeError")
                /\ submission' = IF noExceptions
                                 THEN [NoSubmission EXCEPT !.op = "copyToAsync"]
                                 ELSE submission
                /\ UNCHANGED submits
           ELSE IF failAt # 0 /\ ~noExceptions
           THEN /\ last' = Returned("copyToAsync", "DriverError")
                /\ submission' = made
                /\ UNCHANGED submits
           ELSE /\ last' = Returned("copyToAsync", IF failAt = 0 THEN "ok" ELSE "DriverError")
                /\ submission' = [made EXCEPT
                                    !.op = "copyToAsync",
                                    !.handle = [fence |-> TRUE, cmdBuf |-> TRUE],
                                    !.work = IF failAt = 5 THEN "none" ELSE "pending"]
                /\ submits' = IF failAt = 5 THEN submits ELSE submits + 1
        /\ UNCHANGED <<bufferOnly, noExceptions, selectVars, limits, program, driverObjects,
                       driverSetLayouts, recorded, ownershipVars, attempts>>

\* The submitted work finishes on the device.
Complete ==
    /\ submission.work = "pending"
    /\ submission' = [submission EXCEPT !.work = "done"]
    /\ Execute(submission, recorded)
    /\ program' = IF submission.op \in DispatchOps
                  THEN Timestamped(program, recorded, submits) ELSE program
    /\ UNCHANGED <<last, driverObjects, driverSetLayouts, recorded, submits>>
    /\ UNCHANGED <<limits, noExceptions, selectVars, bufferConfig, mappings, terminated,
                   mapCalls, ownershipVars, attempts>>

\* device.wait(h, timeoutNs), h the handle the caller holds.  result is what
\* vkWaitForFences answers; the work may finish during the wait.
Wait(timeoutNs, result, finishes) ==
    LET w == wait(submission, result)
    IN  /\ submission.op \in {"", "dispatchWithTimingAsync", "copyToAsync"}
        /\ submission.waits < MaxWaits
        /\ finishes => submission.work = "pending"
        /\ result \in WaitAnswers(submission, timeoutNs, finishes)
        /\ submission' = [w.sub EXCEPT !.work = IF finishes THEN "done" ELSE @]
        /\ IF finishes THEN Execute(submission, recorded)
                       ELSE UNCHANGED <<deviceMem, hostView, released>>
        /\ last' = Returned("wait", IF w.ret THEN "true" ELSE "false")
        /\ program' = IF finishes /\ submission.op \in DispatchOps
                      THEN Timestamped(program, recorded, submits) ELSE program
        /\ UNCHANGED <<driverObjects, driverSetLayouts, recorded, submits>>
        /\ UNCHANGED <<limits, noExceptions, selectVars, bufferConfig, mappings, terminated,
                       mapCalls, ownershipVars, attempts>>

\* program.tryGetTimingNs(outNs).  seen is the availability of the two queries
\* vkGetQueryPoolResults reports and result what it returns: while timed work
\* is pending the device may not have started it, may have reset the pool or
\* may have written the first timestamp; with a query unavailable the call
\* returns VK_NOT_READY or VK_SUCCESS.
TryGetTimingNs(seen, result) ==
    LET polled == supportsTimestamps /\ program.timestampInFlight_
        running == /\ submission.work = "pending"
                   /\ submission.op \in DispatchOps
                   /\ \E k \in 1 .. Len(recorded) : recorded[k].call = "vkCmdWriteTimestamp 1"
        ret == polled /\ result = "VK_SUCCESS" /\ seen = <<TRUE, TRUE>>
    IN  /\ program.phase = "object"
        /\ seen \in {program.queries.available}
                    \cup (IF polled /\ running THEN {<<FALSE, FALSE>>, <<TRUE, FALSE>>} ELSE {})
        /\ result \in IF ~polled THEN {"VK_SUCCESS"}
                       ELSE IF seen = <<TRUE, TRUE>> THEN {"VK_SUCCESS", "VK_ERROR_DEVICE_LOST"}
                       ELSE {"VK_SUCCESS", "VK_NOT_READY", "VK_ERROR_DEVICE_LOST"}
        /\ program' = IF ret
                      THEN [program EXCEPT !.lastTimestamps_ = program.queries.stamp,
                                           !.timestampInFlight_ = FALSE,
                                           !.outNs = program.queries.stamp]
                      ELSE program
        /\ last' = Returned("tryGetTimingNs", IF ret THEN "true" ELSE "false")
        /\ UNCHANGED <<driverObjects, driverSetLayouts, recorded, submits>>
        /\ UNCHANGED <<limits, noExceptions, selectVars, bufferOnly, ownershipVars, submission, attempts>>

\* ComputeProgram::teardown(), on c as above.
teardown(c) ==
    IF c.p.tornDown_ THEN c ELSE teardownFrom(c, "INIT_COMPLETE")

\* program.teardown()
Teardown ==
    LET c == teardown([p |-> program, objects |-> driverObjects,
                       layouts |-> driverSetLayouts, deviceLive |-> TRUE])
    IN  /\ program.phase = "object"
        /\ program.teardowns < MaxTeardowns
        /\ program' = [c.p EXCEPT !.teardowns = @ + 1]
        /\ driverObjects' = c.objects
        /\ driverSetLayouts' = c.layouts
        /\ last' = Returned("teardown", "ok")
        /\ UNCHANGED <<recorded, submits, limits, noExceptions, selectVars, bufferOnly, ownershipVars, submission, attempts>>

\* ComputeProgram::~ComputeProgram(): the end of the object.
Destroy ==
    LET c0 == [p |-> program, objects |-> driverObjects, layouts |-> driverSetLayouts,
               deviceLive |-> TRUE]
        c == IF ~program.tornDown_ THEN teardown(c0) ELSE c0
    IN  /\ program.phase = "object"
        /\ program' = [c.p EXCEPT !.phase = "destructed", !.teardowns = @ + 1]
        /\ driverObjects' = c.objects
        /\ driverSetLayouts' = c.layouts
        /\ last' = Returned("~ComputeProgram", "ok")
        /\ UNCHANGED <<recorded, submits, limits, noExceptions, selectVars, bufferOnly, ownershipVars, submission, attempts>>

\* ------------------------------------------------- ownership of handles
\* The wrapper objects of each class: two Devices, two Buffers, two
\* ComputePrograms.
Wrappers ==
    {1, 2}

\* A wrapper is "unborn" before its constructor, "alive" until its
\* destructor, then "dead".  A handle member is TRUE when it is non-null;
\* gen tells which construction's handles the non-null members are (0 when
\* all are null): a move copies the handle values.  device_ of a Buffer or
\* ComputeProgram is the Device object it points at.
Unborn ==
    [Device |-> [life |-> "unborn", gen |-> 0, device_ |-> FALSE,
                 transferCmdPool_ |-> FALSE, tornDown_ |-> FALSE],
     Buffer |-> [life |-> "unborn", gen |-> 0, device_ |-> 0, buffer_ |-> FALSE,
                 memory_ |-> FALSE, tornDown_ |-> FALSE],
     ComputeProgram |-> [life |-> "unborn", gen |-> 0, device_ |-> 0, p |-> NoProgram]]

\* device_->vk() != VK_NULL_HANDLE for the Device object d.
DeviceLive(d) ==
    wrappers.Device[d].life = "alive" /\ wrappers.Device[d].device_

\* Device::teardown on the wrapper w; objs is the driver's view of the
\* Device handles of each construction.
DeviceTeardown(w, objs) ==
    IF w.tornDown_ THEN [w |-> w, objs |-> objs]
    ELSE IF ~w.device_ THEN [w |-> [w EXCEPT !.tornDown_ = TRUE], objs |-> objs]
    ELSE [w |-> [w EXCEPT !.device_ = FALSE, !.transferCmdPool_ = FALSE,
                          !.tornDown_ = TRUE, !.gen = 0],
          objs |-> [objs EXCEPT ![w.gen] =
                       [device_ |-> Destroyed(@.device_),
                        transferCmdPool_ |-> IF w.transferCmdPool_
                                             THEN Destroyed(@.transferCmdPool_)
                                             ELSE @.transferCmdPool_]]]

\* Buffer::teardown on the wrapper w.  vkFreeMemory and vkDestroyBuffer are
\* called with device_->vk(); with a null device handle their effect is
\* undefined: ub is what becomes of the object, "live" or "destroyed".
BufferTeardown(w, objs, ub) ==
    LET after(obj) == IF DeviceLive(w.device_) THEN Destroyed(obj) ELSE ub
    IN  IF w.tornDown_ THEN [w |-> w, objs |-> objs]
        ELSE [w |-> [w EXCEPT !.buffer_ = FALSE, !.memory_ = FALSE, !.tornDown_ = TRUE,
                              !.gen = 0],
              objs |-> [objs EXCEPT ![w.gen] =
                           [memory_ |-> IF w.memory_ THEN after(@.memory_) ELSE @.memory_,
                            buffer_ |-> IF w.buffer_ THEN after(@.buffer_) ELSE @.buffer_]]]

\* ComputeProgram::teardown on the wrapper w.
ProgramTeardown(w, objs) ==
    LET c == teardown([p |-> w.p, objects |-> objs[w.gen].objects,
                       layouts |-> objs[w.gen].layouts,
                       deviceLive |-> DeviceLive(w.device_)])
    IN  [w |-> [w EXCEPT !.p = c.p,
                         !.gen = IF \E h \in Handles : c.p.handle[h] THEN @ ELSE 0],
         objs |-> [objs EXCEPT ![w.gen] = [objects |-> c.objects, layouts |-> c.layouts]]]

\* Device::Device(Device &&other): this is s, other is o.
MoveConstructDevice(s, o) ==
    /\ wrappers.Device[s].life = "unborn"
    /\ wrappers.Device[o].life = "alive"
    /\ wrappers' = [wrappers EXCEPT
            !.Device[s] = wrappers.Device[o],
            !.Device[o] = [@ EXCEPT !.device_ = FALSE, !.transferCmdPool_ = FALSE,
                                    !.tornDown_ = TRUE, !.gen = 0]]
    /\ UNCHANGED driverHandles

\* A Buffer or ComputeProgram that holds handles points at the Device object d.
HasDependents(d) ==
    \/ \E b \in Wrappers : /\ wrappers.Buffer[b].life = "alive"
                           /\ wrappers.Buffer[b].device_ = d
                           /\ wrappers.Buffer[b].gen # 0
    \/ \E q \in Wrappers : /\ wrappers.ComputeProgram[q].life = "alive"
                           /\ wrappers.ComputeProgram[q].device_ = d
                           /\ wrappers.ComputeProgram[q].gen # 0

\* Device::operator=(Device &&other): this is s, other is o.  The objects
\* made from the device this held are gone before it (they do not outlive it).
MoveAssignDevice(s, o) ==
    LET t == DeviceTeardown(wrappers.Device[s], driverHandles.Device)
    IN  /\ wrappers.Device[s].life = "alive"
        /\ wrappers.Device[o].life = "alive"
        /\ ~HasDependents(s)
        /\ IF s = o THEN UNCHANGED <<wrappers, driverHandles>>
           ELSE /\ wrappers' = [wrappers EXCEPT
                        !.Device[s] = wrappers.Device[o],
                        !.Device[o] = [@ EXCEPT !.device_ = FALSE,
                                                !.transferCmdPool_ = FALSE,
                                                !.tornDown_ = TRUE, !.gen = 0]]
                /\ driverHandles' = [driverHandles EXCEPT !.Device = t.objs]

\* Device::~Device().  No Buffer or ComputeProgram outlives its Device.
DestructDevice(s) ==
    LET w == wrappers.Device[s]
        t == IF ~w.tornDown_ THEN DeviceTeardown(w, driverHandles.Device)
             ELSE [w |-> w, objs |-> driverHandles.Device]
    IN  /\ w.life = "alive"
        /\ \A b \in Wrappers : ~(wrappers.Buffer[b].life = "alive"
                                 /\ wrappers.Buffer[b].device_ = s)
        /\ \A q \in Wrappers : ~(wrappers.ComputeProgram[q].life = "alive"
                                 /\ wrappers.ComputeProgram[q].device_ = s)
        /\ wrappers' = [wrappers EXCEPT !.Device[s] = [t.w EXCEPT !.life = "dead"]]
        /\ driverHandles' = [driverHandles EXCEPT !.Device = t.objs]

\* Buffer::Buffer(Buffer &&other)
MoveConstructBuffer(s, o) ==
    /\ wrappers.Buffer[s].life = "unborn"
    /\ wrappers.Buffer[o].life = "alive"
    /\ wrappers' = [wrappers EXCEPT
            !.Buffer[s] = wrappers.Buffer[o],
            !.Buffer[o] = [@ EXCEPT !.buffer_ = FALSE, !.memory_ = FALSE,
                                    !.tornDown_ = TRUE, !.gen = 0]]
    /\ UNCHANGED driverHandles

\* Buffer::operator=(Buffer &&other)
MoveAssignBuffer(s, o, ub) ==
    LET t == BufferTeardown(wrappers.Buffer[s], driverHandles.Buffer, ub)
    IN  /\ wrappers.Buffer[s].life = "alive"
        /\ wrappers.Buffer[o].life = "alive"
        /\ IF s = o THEN UNCHANGED <<wrappers, driverHandles>>
           ELSE /\ wrappers' = [wrappers EXCEPT
                        !.Buffer[s] = wrappers.Buffer[o],
                        !.Buffer[o] = [@ EXCEPT !.buffer_ = FALSE, !.memory_ = FALSE,
                                                !.tornDown_ = TRUE, !.gen = 0]]
                /\ driverHandles' = [driverHandles EXCEPT !.Buffer = t.objs]

\* Buffer::~Buffer()
DestructBuffer(s, ub) ==
    LET w == wrappers.Buffer[s]
        t == IF ~w.tornDown_ THEN BufferTeardown(w, driverHandles.Buffer, ub)
             ELSE [w |-> w, objs |-> driverHandles.Buffer]
    IN  /\ w.life = "alive"
        /\ wrappers' = [wrappers EXCEPT !.Buffer[s] = [t.w EXCEPT !.life = "dead"]]
        /\ driverHandles' = [driverHandles EXCEPT !.Buffer = t.objs]

\* The members of a moved-from ComputeProgram.
MovedFromProgram(w) ==
    [w EXCEPT !.gen = 0,
              !.p.handle = [h \in Handles |-> FALSE],
              !.p.setLayouts_ = <<>>,
              !.p.descriptorSets_ = FALSE,
              !.p.pcData_ = <<>>,
              !.p.initialized_ = FALSE,
              !.p.tornDown_ = TRUE,
              !.p.timestampInFlight_ = FALSE,
              !.p.initState_ = "INIT_NONE"]

\* ComputeProgram::ComputeProgram(ComputeProgram &&other)
MoveConstructProgram(s, o) ==
    /\ wrappers.ComputeProgram[s].life = "unborn"
    /\ wrappers.ComputeProgram[o].life = "alive"
    /\ wrappers' = [wrappers EXCEPT
            !.ComputeProgram[s] = wrappers.ComputeProgram[o],
            !.ComputeProgram[o] = MovedFromProgram(@)]
    /\ UNCHANGED driverHandles

\* ComputeProgram::operator=(ComputeProgram &&other)
MoveAssignProgram(s, o) ==
    LET t == ProgramTeardown(wrappers.ComputeProgram[s], driverHandles.ComputeProgram)
    IN  /\ wrappers.ComputeProgram[s].life = "alive"
        /\ wrappers.ComputeProgram[o].life = "alive"
        /\ IF s = o THEN UNCHANGED <<wrappers, driverHandles>>
           ELSE /\ wrappers' = [wrappers EXCEPT
                        !.ComputeProgram[s] = wrappers.ComputeProgram[o],
                        !.ComputeProgram[o] = MovedFromProgram(@)]
                /\ driverHandles' = [driverHandles EXCEPT !.ComputeProgram = t.objs]

\* ComputeProgram::~ComputeProgram() on a wrapper
DestructProgram(s) ==
    LET w == wrappers.ComputeProgram[s]
        t == IF ~w.p.tornDown_ THEN ProgramTeardown(w, driverHandles.ComputeProgram)
             ELSE [w |-> w, objs |-> driverHandles.ComputeProgram]
    IN  /\ w.life = "alive"
        /\ wrappers' = [wrappers EXCEPT !.ComputeProgram[s] = [t.w EXCEPT !.life = "dead"]]
        /\ driverHandles' = [driverHandles EXCEPT !.ComputeProgram = t.objs]

\* The driver objects before anything is created; construction 0 is the null
\* handle.
NoDriverHandles ==
    [Device |-> [g \in 0 .. 2 |-> [device_ |-> "none", transferCmdPool_ |-> "none"]],
     Buffer |-> [g \in 0 .. 2 |-> [memory_ |-> "none", buffer_ |-> "none"]],
     ComputeProgram |-> [g \in 0 .. 2 |->
                            [objects |-> [h \in Handles |-> "none"],
                             layouts |-> [i \in 0 .. MaxSetIndex |-> "none"]]]]

\* No wrapper objects: the state of the ownership variables in the
\* specifications that are not about moves.
IdleWrappers ==
    /\ wrappers = [Device |-> [s \in Wrappers |-> Unborn.Device],
                   Buffer |-> [s \in Wrappers |-> Unborn.Buffer],
                   ComputeProgram |-> [s \in Wrappers |-> Unborn.ComputeProgram]]
    /\ driverHandles = NoDriverHandles

\* ComputeProgram::ComputeProgram(): no device, no handles.
DefaultConstruct ==
    /\ program.phase = "none"
    /\ program' = [NewProgram([pushConstantBytes |-> 0, local |-> <<1, 1, 1>>]) EXCEPT
                        !.phase = "object", !.made = "default"]
    /\ last' = Returned("ComputeProgram", "ok")
    /\ UNCHANGED <<driverObjects, driverSetLayouts, recorded, submits>>
    /\ UNCHANGED <<limits, noExceptions, selectVars, bufferOnly, ownershipVars, submission, attempts>>

\* The program is moved into another ComputeProgram, by move construction or
\* move assignment: what is left of it.  Its driver objects now belong to the
\* other.
MoveFrom ==
    /\ program.phase = "object"
    /\ program.made # "moved-from"
    /\ program' = [MovedFromProgram([gen |-> 0, p |-> program]).p EXCEPT
                        !.made = "moved-from"]
    /\ last' = Returned("ComputeProgram(ComputeProgram &&)", "ok")
    /\ UNCHANGED <<driverObjects, driverSetLayouts, recorded, submits>>
    /\ UNCHANGED <<limits, noExceptions, selectVars, bufferOnly, ownershipVars, submission, attempts>>

\* ------------------------------------------------------- Buffer::Buffer
\* BufferCreateInfo::validate
BufferCreateInfoValidate(sizeBytes) ==
    ~(sizeBytes = 0) /\ ~(sizeBytes > UINT64_MAX \div 2)

\* Buffer::createVkBuffer(&buffer_, &memory_, size_, usage, props) for a
\* Buffer asked for with the access mode host, on a device with the
\* memory-type table `table`, the buffer's memoryTypeBits as given.  failAt is
\* the call that fails (1 vkCreateBuffer, 2 vkAllocateMemory,
\* 3 vkBindBufferMemory), 0 when none does.  buffer_ and
\* memory_ are what became of the objects the call made; selected is the
\* result of its selectMemory call.  In the throwing build selectMemory
\* throws and the call is left at once.
createVkBuffer(host, table, memoryTypeBits, props, failAt) ==
    LET r == selectMemory(table, memoryTypeBits, props)
        call == [host |-> host, props |-> props, ok |-> FALSE, buffer_ |-> "none",
                 memory_ |-> "none", reached |-> FALSE, selected |-> r]
    IN  IF failAt = 1 THEN call
        ELSE IF r.failed
        THEN [call EXCEPT !.reached = TRUE,
                          !.buffer_ = IF noExceptions THEN Destroyed(Created(@))
                                      ELSE Created(@)]
        ELSE IF failAt = 2
        THEN [call EXCEPT !.reached = TRUE, !.buffer_ = Destroyed(Created(@))]
        ELSE IF failAt = 3
        THEN [call EXCEPT !.reached = TRUE, !.buffer_ = Destroyed(Created(@)),
                          !.memory_ = Destroyed(Created(@))]
        ELSE [call EXCEPT !.reached = TRUE, !.ok = TRUE, !.buffer_ = Created(@),
                          !.memory_ = Created(@)]

\* The createVkBuffer calls of Buffer::Buffer(dev, info), in order: the
\* first with the flags of the access mode, then the fallbacks.  fails[k] is
\* the driver call that fails in the k-th.
BufferAttempts(host, table, memoryTypeBits, fails) ==
    LET first == IF host = "None"
                 THEN VK_MEMORY_PROPERTY_DEVICE_LOCAL_BIT
                 ELSE VK_MEMORY_PROPERTY_HOST_VISIBLE_BIT + VK_MEMORY_PROPERTY_HOST_COHERENT_BIT
        a1 == createVkBuffer(host, table, memoryTypeBits, first, fails[1])
        a2 == createVkBuffer(host, table, memoryTypeBits,
                  VK_MEMORY_PROPERTY_HOST_VISIBLE_BIT + VK_MEMORY_PROPERTY_HOST_CACHED_BIT,
                  fails[2])
        a3 == createVkBuffer(host, table, memoryTypeBits,
                  VK_MEMORY_PROPERTY_HOST_VISIBLE_BIT, fails[3])
    IN  IF a1.ok THEN <<a1>>
        ELSE IF host # "None" /\ BitAnd(first, VK_MEMORY_PROPERTY_HOST_COHERENT_BIT) # 0
        THEN IF a2.ok THEN <<a1, a2>> ELSE <<a1, a2, a3>>
        ELSE <<a1>>

\* Buffer b is constructed: Buffer(dev, info) with info.sizeBytes and
\* info.host as given, deviceValid telling dev.isValid().  A construction that
\* fails leaves no usable Buffer.
ConstructBuffer(b, sizeBytes, host, deviceValid, memoryTypeBits, fails) ==
    LET tried == BufferAttempts(host, memoryTypes, memoryTypeBits, fails)
        final == tried[Len(tried)]
        reached == { k \in 1 .. Len(tried) : tried[k].reached }
        lastReached == tried[CHOOSE k \in reached : \A j \in reached : j <= k]
    IN  /\ last.op = "none"
        /\ IF ~BufferCreateInfoValidate(sizeBytes)
           THEN /\ last' = Returned("Buffer", "ValidationError")
                /\ UNCHANGED <<attempts, selected, size_, hostAccess_, memFlags_>>
           ELSE IF ~deviceValid
           THEN /\ last' = Returned("Buffer", "DeviceError")
                /\ UNCHANGED <<attempts, selected, size_, hostAccess_, memFlags_>>
           ELSE /\ attempts' = tried
                /\ selected' = IF reached = {} THEN selected
                               ELSE [called |-> TRUE,
                                     memoryTypeBits |-> memoryTypeBits,
                                     flags |-> lastReached.props,
                                     failed |-> lastReached.selected.failed,
                                     index |-> lastReached.selected.index]
                /\ IF final.ok
                   THEN /\ size_' = [size_ EXCEPT ![b] = sizeBytes]
                        /\ hostAccess_' = [hostAccess_ EXCEPT ![b] = host]
                        /\ memFlags_' = [memFlags_ EXCEPT ![b] = final.props]
                        /\ last' = Returned("Buffer", "ok")
                   ELSE /\ last' = Returned("Buffer", "DriverError")
                        /\ UNCHANGED <<size_, hostAccess_, memFlags_>>
        /\ UNCHANGED <<memoryTypes, physicalDevices, device, noExceptions,
                       nonCoherentAtomSize, deviceMem, hostView,
                       mappings, released, terminated, mapCalls, programVars, ownershipVars,
                       submission>>

\* ------------------------------------------------------------------ Device
\* No physical device enumerated and no Device constructed: the members of
\* Device after the constructor's initializer list.  phys_ is the place of
\* the chosen device in the enumeration, counted from 1, 0 being
\* VK_NULL_HANDLE; device_, queue_ and transferCmdPool_ tell whether the
\* handle is non-null; created is history: the driver objects the
\* constructor created.
NoDevices ==
    /\ physicalDevices = <<>>
    /\ device = [phase |-> "none", preferredIndex |-> 0, phys_ |-> 0,
                 queueFamilyIndex_ |-> UINT32_MAX, device_ |-> FALSE, queue_ |-> FALSE,
                 transferCmdPool_ |-> FALSE, created |-> {}]

\* A choice that takes the first family supporting compute, dedicated or not.
findComputeQueueFamilyAnyFirst(families) ==
    LET any == { i \in 1 .. Len(families) :
                    families[i].queueCount > 0 /\ families[i].compute }
    IN  IF any = {} THEN UINT32_MAX
        ELSE (CHOOSE i \in any : \A j \in any : i <= j) - 1

\* findComputeQueueFamily(physicalDevice) for a non-null device with the queue
\* families given: the index, counted from 0, the first loop returns at, or
\* else the second, or UINT32_MAX.
findComputeQueueFamily(families) ==
    LET dedicated == { i \in 1 .. Len(families) :
                          /\ families[i].queueCount > 0
                          /\ families[i].compute
                          /\ ~families[i].graphics }
        any == { i \in 1 .. Len(families) :
                    families[i].queueCount > 0 /\ families[i].compute }
        first(S) == CHOOSE i \in S : \A j \in S : i <= j
    IN  IF Len(families) = 0 THEN UINT32_MAX
        ELSE IF dedicated # {} THEN first(dedicated) - 1
        ELSE IF any # {} THEN first(any) - 1
        ELSE UINT32_MAX

\* A choice that ignores preferredIndex.
selectBestDeviceByScoreOnly(devices, preferredIndex) ==
    LET score(d) == IF d.deviceType = "DISCRETE_GPU" THEN 3
                    ELSE IF d.deviceType = "INTEGRATED_GPU" THEN 2
                    ELSE IF d.deviceType = "CPU" THEN 1 ELSE 0
        usable == { i \in 1 .. Len(devices) :
                        findComputeQueueFamily(devices[i].families) # UINT32_MAX }
    IN  IF usable = {} THEN 0
        ELSE CHOOSE i \in usable :
                \A j \in usable : \/ score(devices[j]) < score(devices[i])
                                  \/ score(devices[j]) = score(devices[i]) /\ i <= j

\* selectBestDevice(devices, preferredIndex) for a non-empty enumeration: the
\* place of the device returned, counted from 1, or 0 for VK_NULL_HANDLE.
\* The loop keeps the best device so far and replaces it only by one of a
\* strictly higher score.
selectBestDevice(devices, preferredIndex) ==
    LET score(d) == IF d.deviceType = "DISCRETE_GPU" THEN 3
                    ELSE IF d.deviceType = "INTEGRATED_GPU" THEN 2
                    ELSE IF d.deviceType = "CPU" THEN 1 ELSE 0
        RECURSIVE scan(_, _, _)
        scan(i, bestDevice, bestScore) ==
            IF i > Len(devices) THEN bestDevice
            ELSE IF findComputeQueueFamily(devices[i].families) = UINT32_MAX
            THEN scan(i + 1, bestDevice, bestScore)
            ELSE IF score(devices[i]) > bestScore
            THEN scan(i + 1, i, score(devices[i]))
            ELSE scan(i + 1, bestDevice, bestScore)
    IN  IF /\ preferredIndex >= 0
           /\ preferredIndex < Len(devices)
           /\ findComputeQueueFamily(devices[preferredIndex + 1].families) # UINT32_MAX
        THEN preferredIndex + 1
        ELSE scan(1, 0, 0 - 1)

\* Device::Device(inst, info) with info.preferredIndex = preferredIndex on an
\* instance that enumerates physicalDevices.  instValid is inst.isValid();
\* failAt is the driver call under VK_CHECK that fails (1 vkCreateDevice, 2
\* vkCreateCommandPool), 0 when none does.  When a failed vkCreateDevice is
\* only logged, the calls after it are made on a null device, which is
\* undefined behaviour: garbage tells whether they leave non-null handles.
ConstructDevice(instValid, preferredIndex, failAt, garbage) ==
    LET phys == selectBestDevice(physicalDevices, preferredIndex)
        family == IF phys = 0 THEN UINT32_MAX
                  ELSE findComputeQueueFamily(physicalDevices[phys].families)
        chosen == [device EXCEPT !.preferredIndex = preferredIndex, !.phys_ = phys]
        ends(d, error) ==
            /\ device' = [d EXCEPT !.phase = IF noExceptions THEN "object" ELSE "thrown"]
            /\ last' = Returned("Device", error)
    IN  /\ device.phase = "none"
        /\ IF ~instValid
           THEN failAt = 0 /\ ~garbage /\ ends(device, "StateError")
           ELSE IF Len(physicalDevices) = 0
           THEN /\ failAt = 0 /\ ~garbage
                /\ IF noExceptions
                   THEN ends([device EXCEPT !.preferredIndex = preferredIndex],
                             "No suitable physical device found")
                   ELSE /\ device' = [device EXCEPT !.phase = "thrown",
                                                    !.preferredIndex = preferredIndex]
                        /\ last' = Returned("Device", "std::runtime_error")
           ELSE IF phys = 0
           THEN failAt = 0 /\ ~garbage /\ ends(chosen, "No suitable physical device found")
           ELSE IF family = UINT32_MAX
           THEN failAt = 0 /\ ~garbage
                /\ ends([chosen EXCEPT !.queueFamilyIndex_ = family],
                        "No compute queue family found")
           ELSE IF failAt # 0 /\ vkCheckThrows(FALSE)
           THEN /\ ~garbage
                /\ device' = [chosen EXCEPT
                                !.phase = "thrown",
                                !.queueFamilyIndex_ = family,
                                !.device_ = failAt = 2,
                                !.queue_ = failAt = 2,
                                !.created = IF failAt = 2 THEN {"VkDevice"} ELSE {}]
                /\ last' = Returned("Device", "DriverError")
           ELSE /\ garbage => failAt = 1
                /\ device' = [chosen EXCEPT
                                !.phase = "object",
                                !.queueFamilyIndex_ = family,
                                !.device_ = failAt # 1,
                                !.queue_ = IF failAt = 1 THEN garbage ELSE TRUE,
                                !.transferCmdPool_ =
                                    IF failAt = 1 THEN garbage ELSE failAt # 2,
                                !.created =
                                    (IF failAt # 1 THEN {"VkDevice"} ELSE {})
                                    \cup (IF failAt = 0 THEN {"VkCommandPool"} ELSE {})]
                /\ last' = Returned("Device",
                                IF failAt = 0 THEN "ok" ELSE "DriverErrorLogged")
        /\ UNCHANGED <<memoryTypes, selected, physicalDevices, noExceptions, bufferOnly,
                       programVars, ownershipVars, submission, attempts>>

\* No ComputeProgram: the state of the program variables in the
\* specifications that are not about programs.
IdleProgram ==
    /\ limits = [maxComputeWorkGroupSize |-> <<1, 1, 1>>,
                 maxComputeWorkGroupInvocations |-> 1,
                 maxComputeWorkGroupCount |-> <<1, 1, 1>>,
                 maxPushConstantsSize |-> 4,
                 supportsTimestamps |-> FALSE,
                 debugUtils |-> FALSE,
                 minUniformBufferOffsetAlignment |-> 1,
                 minStorageBufferOffsetAlignment |-> 1]
    /\ program = NoProgram
    /\ driverObjects = [h \in Handles |-> "none"]
    /\ driverSetLayouts = [i \in 0 .. MaxSetIndex |-> "none"]
    /\ recorded = <<>>
    /\ submits = 0

\* Buffers nobody uses: the state of the Buffer variables in the
\* specifications that are not about buffers.
IdleBuffers ==
    /\ nonCoherentAtomSize = 1
    /\ size_ = [b \in Buffers |-> 1]
    /\ hostAccess_ = [b \in Buffers |-> "None"]
    /\ memFlags_ = [b \in Buffers |-> VK_MEMORY_PROPERTY_DEVICE_LOCAL_BIT]
    /\ deviceMem = [b \in Buffers |-> [i \in {0} |-> 0]]
    /\ hostView = [b \in Buffers |-> [i \in {0} |-> 0]]
    /\ mappings = [s \in Slots |-> NoMapping]
    /\ mapCalls = <<>>
    /\ released = [b \in Buffers |-> <<>>]
    /\ last = Returned("none", "ok")
    /\ terminated = FALSE

\* The sizes and lengths the calls of the model are made with: everything
\* up to just past the largest buffer, and the top of the VkDeviceSize range.
DeviceSizes ==
    (0 .. (MaxBufferSize + 1)) \cup {UINT64_MAX - 1, VK_WHOLE_SIZE}

\* Buffer 1 is a Buffer of n bytes with the given access mode and memory
\* kind, its memory zeroed; buffer 2 is one device-local byte.
OneBuffer(n, host, flags) ==
    /\ size_ = [b \in Buffers |-> IF b = 1 THEN n ELSE 1]
    /\ hostAccess_ = [b \in Buffers |-> IF b = 1 THEN host ELSE "None"]
    /\ memFlags_ = [b \in Buffers |->
            IF b = 1 THEN flags ELSE VK_MEMORY_PROPERTY_DEVICE_LOCAL_BIT]
    /\ deviceMem = [b \in Buffers |-> [i \in 0 .. (size_[b] - 1) |-> 0]]
    /\ hostView = deviceMem
    /\ mappings = [s \in Slots |-> NoMapping]
    /\ mapCalls = <<>>
    /\ released = [b \in Buffers |-> <<>>]
    /\ last = Returned("none", "ok")
    /\ terminated = FALSE

\* Mapping ranges: one Buffer of any size, access mode and memory kind on a
\* device of any atom size, mapped with any offset and length.
\* The default build (EASYVK_NO_EXCEPTIONS is not defined, easyvk.h:48).
InitMap ==
    /\ memoryTypes = <<>>
    /\ selected = NoSelection
    /\ NoDevices
    /\ noExceptions = FALSE
    /\ IdleProgram
    /\ IdleWrappers
    /\ submission = NoSubmission
    /\ attempts = <<>>
    /\ nonCoherentAtomSize \in NonCoherentAtomSizes
    /\ \E n \in 1 .. MaxBufferSize, host \in HostAccess :
         \E flags \in ConstructedMemFlags(host) : OneBuffer(n, host, flags)

NextMap ==
    \/ \E offsetBytes \in DeviceSizes, lengthBytes \in DeviceSizes, mapOk \in BOOLEAN :
            /\ MapWrite(1, 1, offsetBytes, lengthBytes, mapOk)
            /\ UNCHANGED <<selectVars, programVars, ownershipVars, submission, attempts>>
    \/ \E offsetBytes \in DeviceSizes, lengthBytes \in DeviceSizes,
          mapOk \in BOOLEAN, invalidateOk \in BOOLEAN :
            /\ MapRead(1, 1, offsetBytes, lengthBytes, mapOk, invalidateOk)
            /\ UNCHANGED <<selectVars, programVars, ownershipVars, submission, attempts>>
    \/ \E flushOk \in BOOLEAN :
            /\ Unmap(1, flushOk)
            /\ UNCHANGED <<selectVars, programVars, ownershipVars, submission, attempts>>

SpecMap ==
    InitMap /\ [][NextMap]_vars

\* Mapping ranges of a larger Buffer: as SpecMap with a Buffer of
\* MaxBufferSize + 1 bytes, the smallest in which an offset inside the
\* buffer and a length below VK_WHOLE_SIZE add up to 2^64.
InitMapLarge ==
    /\ memoryTypes = <<>>
    /\ selected = NoSelection
    /\ NoDevices
    /\ noExceptions = FALSE
    /\ IdleProgram
    /\ IdleWrappers
    /\ submission = NoSubmission
    /\ attempts = <<>>
    /\ nonCoherentAtomSize \in NonCoherentAtomSizes
    /\ \E host \in HostAccess :
         \E flags \in ConstructedMemFlags(host) : OneBuffer(MaxBufferSize + 1, host, flags)

SpecMapLarge ==
    InitMapLarge /\ [][NextMap]_vars


\* Round trips: a host-visible Buffer written through write mappings and read
\* back through read mappings, one mapping at a time, ranges inside and just
\* outside the buffer.
InitRoundTrip ==
    /\ memoryTypes = <<>>
    /\ selected = NoSelection
    /\ NoDevices
    /\ noExceptions = FALSE
    /\ IdleProgram
    /\ IdleWrappers
    /\ submission = NoSubmission
    /\ attempts = <<>>
    /\ nonCoherentAtomSize \in NonCoherentAtomSizes
    /\ \E n \in 1 .. MaxBufferSize, host \in {"Write", "ReadWrite"} :
         \E flags \in ConstructedMemFlags(host) : OneBuffer(n, host, flags)

NextRoundTrip ==
    \/ \E offsetBytes \in 0 .. MaxBufferSize, lengthBytes \in 0 .. (MaxBufferSize + 1),
          mapOk \in BOOLEAN :
            /\ MapWrite(1, 1, offsetBytes, lengthBytes, mapOk)
            /\ UNCHANGED <<selectVars, programVars, ownershipVars, submission, attempts>>
    \/ \E offsetBytes \in 0 .. MaxBufferSize, lengthBytes \in 0 .. (MaxBufferSize + 1),
          mapOk \in BOOLEAN, invalidateOk \in BOOLEAN :
            /\ MapRead(1, 1, offsetBytes, lengthBytes, mapOk, invalidateOk)
            /\ UNCHANGED <<selectVars, programVars, ownershipVars, submission, attempts>>
    \/ \E i \in 0 .. MaxBufferSize, v \in Bytes :
            /\ HostWrite(1, i, v)
            /\ UNCHANGED <<selectVars, programVars, ownershipVars, submission, attempts>>
    \/ \E flushOk \in BOOLEAN :
            /\ Unmap(1, flushOk)
            /\ UNCHANGED <<selectVars, programVars, ownershipVars, submission, attempts>>

SpecRoundTrip ==
    InitRoundTrip /\ [][NextRoundTrip]_vars

\* The memory kinds of the buffers that are copied: device-local without host
\* access, and host-visible with and without coherence.
CopyKinds ==
    { <<"None", VK_MEMORY_PROPERTY_DEVICE_LOCAL_BIT>>,
      <<"ReadWrite", VK_MEMORY_PROPERTY_HOST_VISIBLE_BIT + VK_MEMORY_PROPERTY_HOST_COHERENT_BIT>>,
      <<"ReadWrite", VK_MEMORY_PROPERTY_HOST_VISIBLE_BIT>> }

\* Copies: two Buffers of one kind, of any sizes and holding any bytes,
\* buffer 1 copied to buffer 2.
InitCopy ==
    /\ memoryTypes = <<>>
    /\ selected = NoSelection
    /\ NoDevices
    /\ noExceptions = FALSE
    /\ IdleProgram
    /\ IdleWrappers
    /\ submission = NoSubmission
    /\ attempts = <<>>
    /\ nonCoherentAtomSize = 1
    /\ \E kind \in CopyKinds :
            /\ hostAccess_ = [b \in Buffers |-> kind[1]]
            /\ memFlags_ = [b \in Buffers |-> kind[2]]
    /\ size_ \in [Buffers -> 1 .. MaxBufferSize]
    /\ deviceMem \in [Buffers -> UNION { [0 .. (n - 1) -> Bytes] : n \in 1 .. MaxBufferSize }]
    /\ \A b \in Buffers : DOMAIN deviceMem[b] = 0 .. (size_[b] - 1)
    /\ hostView = deviceMem
    /\ mappings = [s \in Slots |-> NoMapping]
    /\ mapCalls = <<>>
    /\ released = [b \in Buffers |-> <<>>]
    /\ last = Returned("none", "ok")
    /\ terminated = FALSE

NextCopy ==
    \E bytes \in DeviceSizes, srcOffset \in 0 .. MaxBufferSize, dstOffset \in 0 .. MaxBufferSize :
            /\ CopyTo(1, 2, bytes, srcOffset, dstOffset)
            /\ UNCHANGED <<selectVars, programVars, ownershipVars, attempts>>

SpecCopy ==
    InitCopy /\ [][NextCopy]_vars

\* Programs: in either build, on a device with any push-constant limit and
\* with or without timestamps, one ComputeProgram is constructed from any
\* info with any one driver call failing, then dispatched and torn down.
InitProgram ==
    /\ memoryTypes = <<>>
    /\ selected = NoSelection
    /\ NoDevices
    /\ noExceptions \in BOOLEAN
    /\ IdleBuffers
    /\ IdleWrappers
    /\ submission = NoSubmission
    /\ attempts = <<>>
    /\ limits \in [maxComputeWorkGroupSize : {<<2, 2, 2>>},
                   maxComputeWorkGroupInvocations : {4},
                   maxComputeWorkGroupCount : {<<1, 1, 1>>},
                   maxPushConstantsSize : {4, 8},
                   supportsTimestamps : BOOLEAN,
                   debugUtils : {FALSE},
                   minUniformBufferOffsetAlignment : {1},
                   minStorageBufferOffsetAlignment : {1}]
    /\ program = NoProgram
    /\ driverObjects = [h \in Handles |-> "none"]
    /\ driverSetLayouts = [i \in 0 .. MaxSetIndex |-> "none"]
    /\ recorded = <<>>
    /\ submits = 0

NextProgram ==
    \/ \E info \in CreateInfos, failAt \in 0 .. MaxConstructionCalls : Construct(info, failAt)
    \/ \E op \in DispatchOps \ {"dispatchWithTimingAsync"},
          failAt \in 0 .. 1, finishes \in BOOLEAN :
            Dispatch(op, failAt, finishes)
    \/ program.teardowns = 0 /\ Teardown

SpecProgram ==
    InitProgram /\ [][NextProgram]_vars

\* Constructions from infos of every shader binary, local size and binding
\* list, on devices of differing limits.
ValidateInfos ==
    [spirv : {"null", "empty", "words", "foreign"},
     local : [1 .. 3 -> 0 .. 3],
     pushConstantBytes : {0, 4},
     sets : {{}},
     bindingsAligned : {TRUE}]

\* The binding lists of the infos: entries of each descriptor type with one
\* or two buffers, and pairs of one-buffer entries.
BindingLists ==
    LET BindingEntries(lengths) ==
            [type : {"UNIFORM_BUFFER", "STORAGE_BUFFER", "STORAGE_IMAGE"},
             buffers : UNION {[1 .. n -> {0, 2, 3}] : n \in lengths}]
    IN  {<<>>} \cup {<<e>> : e \in BindingEntries({1, 2})}
               \cup {<<e, f>> : e \in BindingEntries({1}), f \in BindingEntries({1})}

InitValidate ==
    /\ memoryTypes = <<>>
    /\ selected = NoSelection
    /\ NoDevices
    /\ noExceptions \in BOOLEAN
    /\ IdleBuffers
    /\ IdleWrappers
    /\ submission = NoSubmission
    /\ attempts = <<>>
    /\ limits \in
         {l \in [maxComputeWorkGroupSize : {<<2, 2, 2>>, <<3, 1, 2>>, <<3, 3, 2>>},
                 maxComputeWorkGroupInvocations : {2, 4},
                 maxComputeWorkGroupCount : {<<1, 1, 1>>},
                 maxPushConstantsSize : {4},
                 supportsTimestamps : {FALSE},
                 debugUtils : {FALSE},
                 minUniformBufferOffsetAlignment : {1, 2, 4},
                 minStorageBufferOffsetAlignment : {1, 2, 4}] :
            \* the workgroup limits and the alignments vary one group at a time
            \/ /\ l.minUniformBufferOffsetAlignment = 1
               /\ l.minStorageBufferOffsetAlignment = 1
            \/ /\ l.maxComputeWorkGroupSize = <<2, 2, 2>>
               /\ l.maxComputeWorkGroupInvocations = 4}
    /\ program = NoProgram
    /\ driverObjects = [h \in Handles |-> "none"]
    /\ driverSetLayouts = [i \in 0 .. MaxSetIndex |-> "none"]
    /\ recorded = <<>>
    /\ submits = 0

NextValidate ==
    \/ \E info \in ValidateInfos : Construct(info, 0)
    \/ \E entries \in BindingLists :
            Construct([spirv |-> "words", local |-> <<1, 1, 1>>, pushConstantBytes |-> 0,
                       sets |-> {0}, bindingsAligned |-> ComputeBindingsValidate(entries)], 0)

SpecValidate ==
    InitValidate /\ [][NextValidate]_vars

\* Programs that are constructed, with any driver call failing, torn down any
\* number of times and destructed.
TeardownInfos ==
    [spirv : {"words"},
     local : {<<1, 1, 1>>},
     pushConstantBytes : {0, 4},
     sets : SUBSET (0 .. MaxSetIndex),
     bindingsAligned : BOOLEAN]

InitTeardown ==
    InitProgram

NextTeardown ==
    \/ \E info \in TeardownInfos, failAt \in 0 .. MaxConstructionCalls : Construct(info, failAt)
    \/ Teardown
    \/ Destroy

SpecTeardown ==
    InitTeardown /\ [][NextTeardown]_vars

\* Workgroup counts: in either build, on a device whose workgroup-count
\* limit is 1 or MaxWorkgroupCount on each axis, a ComputeProgram without
\* bindings or push constants is constructed, all driver calls succeeding,
\* and its workgroup counts are set any number of times.
InitWorkgroups ==
    /\ memoryTypes = <<>>
    /\ selected = NoSelection
    /\ NoDevices
    /\ noExceptions \in BOOLEAN
    /\ IdleBuffers
    /\ IdleWrappers
    /\ submission = NoSubmission
    /\ attempts = <<>>
    /\ limits \in [maxComputeWorkGroupSize : {<<2, 2, 2>>},
                   maxComputeWorkGroupInvocations : {4},
                   maxComputeWorkGroupCount : [1 .. 3 -> {1, MaxWorkgroupCount}],
                   maxPushConstantsSize : {4},
                   supportsTimestamps : {FALSE},
                   debugUtils : {FALSE},
                   minUniformBufferOffsetAlignment : {1},
                   minStorageBufferOffsetAlignment : {1}]
    /\ program = NoProgram
    /\ driverObjects = [h \in Handles |-> "none"]
    /\ driverSetLayouts = [i \in 0 .. MaxSetIndex |-> "none"]
    /\ recorded = <<>>
    /\ submits = 0

NextWorkgroups ==
    \/ Construct([spirv |-> "words", local |-> <<1, 1, 1>>, pushConstantBytes |-> 0,
                  sets |-> {}, bindingsAligned |-> TRUE], 0)
    \/ \E x \in 0 .. (MaxWorkgroupCount + 1), y \in 0 .. (MaxWorkgroupCount + 1),
          z \in 0 .. (MaxWorkgroupCount + 1) : SetWorkgroups(x, y, z)

SpecWorkgroups ==
    InitWorkgroups /\ [][NextWorkgroups]_vars

\* Programs of every origin (default-constructed, constructed from a valid or
\* an invalid info, with or without a failing driver call), given workgroup
\* counts, moved from, torn down, and dispatched through each entry point.
DispatchInfos ==
    [spirv : {"words"},
     local : {<<1, 1, 1>>},
     pushConstantBytes : {0, 4},
     sets : {{}, {0}},
     bindingsAligned : {TRUE}]
    \cup
    [spirv : {"empty"},
     local : {<<1, 1, 1>>},
     pushConstantBytes : {0},
     sets : {{}},
     bindingsAligned : {TRUE}]

InitDispatch ==
    /\ memoryTypes = <<>>
    /\ selected = NoSelection
    /\ NoDevices
    /\ noExceptions \in BOOLEAN
    /\ IdleBuffers
    /\ IdleWrappers
    /\ submission = NoSubmission
    /\ attempts = <<>>
    /\ limits \in [maxComputeWorkGroupSize : {<<1, 1, 1>>},
                   maxComputeWorkGroupInvocations : {1},
                   maxComputeWorkGroupCount : {<<MaxWorkgroupCount, MaxWorkgroupCount,
                                                 MaxWorkgroupCount>>},
                   maxPushConstantsSize : {4},
                   supportsTimestamps : BOOLEAN,
                   debugUtils : BOOLEAN,
                   minUniformBufferOffsetAlignment : {1},
                   minStorageBufferOffsetAlignment : {1}]
    /\ program = NoProgram
    /\ driverObjects = [h \in Handles |-> "none"]
    /\ driverSetLayouts = [i \in 0 .. MaxSetIndex |-> "none"]
    /\ recorded = <<>>
    /\ submits = 0

NextDispatch ==
    \/ DefaultConstruct
    \/ \E info \in DispatchInfos, failAt \in 0 .. 1 : Construct(info, failAt)
    \/ \E g \in {<<MaxWorkgroupCount, 1, 1>>, <<1, MaxWorkgroupCount, 2>>} :
            submits = 0 /\ SetWorkgroups(g[1], g[2], g[3])
    \/ MoveFrom
    \/ program.teardowns = 0 /\ Teardown
    \/ \E op \in DispatchOps, failAt \in 0 .. Len(DispatchDriverCalls),
          finishes \in BOOLEAN : Dispatch(op, failAt, finishes)

SpecDispatch ==
    InitDispatch /\ [][NextDispatch]_vars

\* A ComputeProgram with bindings in set 0, constructed on the Device object
\* d, every driver call succeeding; objs is the driver's view of what it
\* created.
ConstructedProgram(d) ==
    LET info == [spirv |-> "words", local |-> <<1, 1, 1>>, pushConstantBytes |-> 0,
                 sets |-> {0}, bindingsAligned |-> TRUE]
        c == Construction([p |-> [NewProgram(info) EXCEPT !.made = "built"],
                           objects |-> [h \in Handles |-> "none"],
                           layouts |-> [i \in 0 .. MaxSetIndex |-> "none"],
                           calls |-> 0, threw |-> FALSE, deviceLive |-> TRUE],
                          ConstructionSteps(info), 0)
    IN  [p |-> [c.p EXCEPT !.phase = "object"], device_ |-> d,
         objs |-> [objects |-> c.objects, layouts |-> c.layouts]]

\* One or two wrappers of each class have been constructed, each Buffer and
\* ComputeProgram on one of the Devices; the other wrappers are still to be
\* move-constructed.
InitMove ==
    /\ memoryTypes = <<>>
    /\ selected = NoSelection
    /\ NoDevices
    /\ noExceptions = FALSE
    /\ IdleBuffers
    /\ IdleProgram
    /\ submission = NoSubmission
    /\ attempts = <<>>
    /\ \E nd \in Wrappers, nb \in Wrappers, np \in Wrappers :
       \E bd \in [Wrappers -> 1 .. nd], pd \in [Wrappers -> 1 .. nd] :
          /\ wrappers =
               [Device |-> [s \in Wrappers |->
                    IF s <= nd
                    THEN [life |-> "alive", gen |-> s, device_ |-> TRUE,
                          transferCmdPool_ |-> TRUE, tornDown_ |-> FALSE]
                    ELSE Unborn.Device],
                Buffer |-> [s \in Wrappers |->
                    IF s <= nb
                    THEN [life |-> "alive", gen |-> s, device_ |-> bd[s],
                          buffer_ |-> TRUE, memory_ |-> TRUE, tornDown_ |-> FALSE]
                    ELSE Unborn.Buffer],
                ComputeProgram |-> [s \in Wrappers |->
                    IF s <= np
                    THEN [life |-> "alive", gen |-> s, device_ |-> pd[s],
                          p |-> ConstructedProgram(pd[s]).p]
                    ELSE Unborn.ComputeProgram]]
          /\ driverHandles =
               [Device |-> [g \in 0 .. 2 |->
                    IF g \in 1 .. nd
                    THEN [device_ |-> "live", transferCmdPool_ |-> "live"]
                    ELSE NoDriverHandles.Device[g]],
                Buffer |-> [g \in 0 .. 2 |->
                    IF g \in 1 .. nb
                    THEN [memory_ |-> "live", buffer_ |-> "live"]
                    ELSE NoDriverHandles.Buffer[g]],
                ComputeProgram |-> [g \in 0 .. 2 |->
                    IF g \in 1 .. np
                    THEN ConstructedProgram(pd[g]).objs
                    ELSE NoDriverHandles.ComputeProgram[g]]]
          /\ \A s \in Wrappers : s > nb => bd[s] = 1
          /\ \A s \in Wrappers : s > np => pd[s] = 1

NextMove ==
    \/ \E s \in Wrappers, o \in Wrappers :
            /\ MoveConstructDevice(s, o)
            /\ UNCHANGED <<selectVars, bufferVars, programVars, submission, attempts>>
    \/ \E s \in Wrappers, o \in Wrappers :
            /\ MoveAssignDevice(s, o)
            /\ UNCHANGED <<selectVars, bufferVars, programVars, submission, attempts>>
    \/ \E s \in Wrappers :
            /\ DestructDevice(s)
            /\ UNCHANGED <<selectVars, bufferVars, programVars, submission, attempts>>
    \/ \E s \in Wrappers, o \in Wrappers :
            /\ MoveConstructBuffer(s, o)
            /\ UNCHANGED <<selectVars, bufferVars, programVars, submission, attempts>>
    \/ \E s \in Wrappers, o \in Wrappers, ub \in {"live", "destroyed"} :
            /\ MoveAssignBuffer(s, o, ub)
            /\ UNCHANGED <<selectVars, bufferVars, programVars, submission, attempts>>
    \/ \E s \in Wrappers, ub \in {"live", "destroyed"} :
            /\ DestructBuffer(s, ub)
            /\ UNCHANGED <<selectVars, bufferVars, programVars, submission, attempts>>
    \/ \E s \in Wrappers, o \in Wrappers :
            /\ MoveConstructProgram(s, o)
            /\ UNCHANGED <<selectVars, bufferVars, programVars, submission, attempts>>
    \/ \E s \in Wrappers, o \in Wrappers :
            /\ MoveAssignProgram(s, o)
            /\ UNCHANGED <<selectVars, bufferVars, programVars, submission, attempts>>
    \/ \E s \in Wrappers :
            /\ DestructProgram(s)
            /\ UNCHANGED <<selectVars, bufferVars, programVars, submission, attempts>>

SpecMove ==
    InitMove /\ [][NextMove]_vars

\* The example's computation (example/vect-add.cpp): operand buffers 1 and
\* 2 the host writes, result buffer 3 the host reads, each of two bytes and
\* zeroed, all of one memory kind; a program
\* is constructed, the operands are written through write mappings held
\* together and released, the program is dispatched by any entry point with
\* no mapping alive, and the result is read through a read mapping.
\* The default build.
InitCompute ==
    /\ memoryTypes = <<>>
    /\ selected = NoSelection
    /\ NoDevices
    /\ noExceptions = FALSE
    /\ IdleWrappers
    /\ submission = NoSubmission
    /\ attempts = <<>>
    /\ nonCoherentAtomSize \in {1, 2}
    /\ size_ = [b \in 1 .. 3 |-> 2]
    /\ hostAccess_ = [b \in 1 .. 3 |-> IF b = 3 THEN "Read" ELSE "ReadWrite"]
    /\ \E flags \in ConstructedMemFlags("ReadWrite") :
            memFlags_ = [b \in 1 .. 3 |-> flags]
    /\ deviceMem = [b \in 1 .. 3 |-> [i \in 0 .. (size_[b] - 1) |-> 0]]
    /\ hostView = deviceMem
    /\ mappings = [s \in Slots |-> NoMapping]
    /\ mapCalls = <<>>
    /\ released = [b \in 1 .. 3 |-> <<>>]
    /\ last = Returned("none", "ok")
    /\ terminated = FALSE
    /\ limits \in [maxComputeWorkGroupSize : {<<2, 2, 2>>},
                   maxComputeWorkGroupInvocations : {4},
                   maxComputeWorkGroupCount : {<<1, 1, 1>>},
                   maxPushConstantsSize : {4},
                   supportsTimestamps : BOOLEAN,
                   debugUtils : {FALSE},
                   minUniformBufferOffsetAlignment : {1},
                   minStorageBufferOffsetAlignment : {1}]
    /\ program = NoProgram
    /\ driverObjects = [h \in Handles |-> "none"]
    /\ driverSetLayouts = [i \in 0 .. MaxSetIndex |-> "none"]
    /\ recorded = <<>>
    /\ submits = 0

NextCompute ==
    \/ Construct([spirv |-> "words", local |-> <<1, 1, 1>>, pushConstantBytes |-> 4,
                  sets |-> {0}, bindingsAligned |-> TRUE], 0)
    \/ \E b \in Slots :
            /\ program.phase = "object"
            /\ submits = 0
            /\ MapWrite(b, b, 0, VK_WHOLE_SIZE, TRUE)
            /\ UNCHANGED <<selectVars, programVars, ownershipVars, submission, attempts>>
    \/ \E s \in Slots, i \in 0 .. 1 :
            /\ HostWrite(s, i, 1)
            /\ UNCHANGED <<selectVars, programVars, ownershipVars, submission, attempts>>
    \/ \E s \in Slots, flushOk \in BOOLEAN :
            /\ Unmap(s, flushOk)
            /\ UNCHANGED <<selectVars, programVars, ownershipVars, submission, attempts>>
    \/ \E op \in DispatchOps, failAt \in {0, 6}, finishes \in BOOLEAN :
            /\ \A s \in Slots : mappings[s] = NoMapping
            /\ Dispatch(op, failAt, finishes)
    \/ Complete
    \/ \E lengthBytes \in {1, VK_WHOLE_SIZE}, invalidateOk \in BOOLEAN :
            /\ MapRead(1, 3, 0, lengthBytes, TRUE, invalidateOk)
            /\ UNCHANGED <<selectVars, programVars, ownershipVars, submission, attempts>>

SpecCompute ==
    InitCompute /\ [][NextCompute]_vars

\* Mappings and their release: in either build, two read-write Buffers of one
\* memory kind, at most one mapping of each at a time, held in two
\* BufferMapping variables that are mapped, destroyed, move-constructed and
\* move-assigned.
InitRelease ==
    /\ memoryTypes = <<>>
    /\ selected = NoSelection
    /\ NoDevices
    /\ noExceptions \in BOOLEAN
    /\ IdleProgram
    /\ IdleWrappers
    /\ submission = NoSubmission
    /\ attempts = <<>>
    /\ nonCoherentAtomSize \in {1, 2}
    /\ size_ = [b \in Buffers |-> MaxBufferSize]
    /\ hostAccess_ = [b \in Buffers |-> "ReadWrite"]
    /\ \E flags \in ConstructedMemFlags("ReadWrite") : memFlags_ = [b \in Buffers |-> flags]
    /\ deviceMem = [b \in Buffers |-> [i \in 0 .. (size_[b] - 1) |-> 0]]
    /\ hostView = deviceMem
    /\ mappings = [s \in Slots |-> NoMapping]
    /\ mapCalls = <<>>
    /\ released = [b \in Buffers |-> <<>>]
    /\ last = Returned("none", "ok")
    /\ terminated = FALSE

NextRelease ==
    \/ \E s \in Slots, b \in Buffers, lengthBytes \in {1, VK_WHOLE_SIZE}, mapOk \in BOOLEAN :
            /\ \A t \in Slots : ~(Live(mappings[t]) /\ mappings[t].buf = b)
            /\ MapWrite(s, b, 0, lengthBytes, mapOk)
            /\ UNCHANGED <<selectVars, programVars, ownershipVars, submission, attempts>>
    \/ \E s \in Slots, b \in Buffers, invalidateOk \in BOOLEAN :
            /\ \A t \in Slots : ~(Live(mappings[t]) /\ mappings[t].buf = b)
            /\ MapRead(s, b, 1, VK_WHOLE_SIZE, TRUE, invalidateOk)
            /\ UNCHANGED <<selectVars, programVars, ownershipVars, submission, attempts>>
    \/ \E s \in Slots, flushOk \in BOOLEAN :
            /\ Unmap(s, flushOk)
            /\ UNCHANGED <<selectVars, programVars, ownershipVars, submission, attempts>>
    \/ \E s \in Slots, o \in Slots :
            /\ MoveConstructMapping(s, o)
            /\ UNCHANGED <<selectVars, programVars, ownershipVars, submission, attempts>>
    \/ \E s \in Slots, o \in Slots, flushOk \in BOOLEAN :
            /\ MoveAssignMapping(s, o, flushOk)
            /\ UNCHANGED <<selectVars, programVars, ownershipVars, submission, attempts>>

SpecRelease ==
    InitRelease /\ [][NextRelease]_vars

\* Repeated maps: the two Buffers of SpecRelease mapped for writing and for
\* reading into either BufferMapping variable, whether or not a mapping of
\* the Buffer is live, and the mappings released in any order.
NextRemap ==
    \/ \E s \in Slots, b \in Buffers, lengthBytes \in {1, VK_WHOLE_SIZE}, mapOk \in BOOLEAN :
            /\ MapWrite(s, b, 0, lengthBytes, mapOk)
            /\ UNCHANGED <<selectVars, programVars, ownershipVars, submission, attempts>>
    \/ \E s \in Slots, b \in Buffers, mapOk \in BOOLEAN, invalidateOk \in BOOLEAN :
            /\ MapRead(s, b, 1, VK_WHOLE_SIZE, mapOk, invalidateOk)
            /\ UNCHANGED <<selectVars, programVars, ownershipVars, submission, attempts>>
    \/ \E s \in Slots, flushOk \in BOOLEAN :
            /\ Unmap(s, flushOk)
            /\ UNCHANGED <<selectVars, programVars, ownershipVars, submission, attempts>>

SpecRemap ==
    InitRelease /\ [][NextRemap]_vars

\* Waiting: in either build, a program is constructed and dispatched,
\* synchronously, timed or asynchronously, or a copy of one byte is submitted,
\* any driver call failing; the work finishes at any time; the caller polls
\* the timestamps with tryGetTimingNs and waits on the handle it holds (the
\* default SubmitHandle before any submission), with and without timeout,
\* more than once.
InitWait ==
    /\ InitProgram
    /\ limits.maxPushConstantsSize = 4

NextWait ==
    \/ \E failAt \in 0 .. 1 :
            Construct([spirv |-> "words", local |-> <<1, 1, 1>>, pushConstantBytes |-> 4,
                       sets |-> {0}, bindingsAligned |-> TRUE], failAt)
    \/ \E op \in {"dispatch", "dispatchWithTimingNs", "dispatchWithTimingAsync"},
          failAt \in 0 .. Len(DispatchDriverCalls), finishes \in BOOLEAN :
            Dispatch(op, failAt, finishes)
    \/ \E seen \in BOOLEAN \X BOOLEAN,
          result \in {"VK_SUCCESS", "VK_NOT_READY", "VK_ERROR_DEVICE_LOST"} :
            TryGetTimingNs(seen, result)
    \/ \E bytesArg \in {0, 1, VK_WHOLE_SIZE}, failAt \in 0 .. (Len(CopyDriverCalls) - 1) :
            CopyToAsync(1, 2, bytesArg, 0, 0, failAt)
    \/ Complete
    \/ \E timeoutNs \in {0, UINT64_MAX},
          result \in {"VK_SUCCESS", "VK_TIMEOUT", "VK_ERROR_DEVICE_LOST"}, finishes \in BOOLEAN :
            Wait(timeoutNs, result, finishes)

SpecWait ==
    InitWait /\ [][NextWait]_vars

\* Overlapping dispatches: one program is built and dispatched, synchronously
\* or asynchronously, once more than MaxSubmits times, with or without a wait
\* on the handle in between; any call of a dispatch may fail.
NextOverlap ==
    \/ Construct([spirv |-> "words", local |-> <<1, 1, 1>>, pushConstantBytes |-> 4,
                  sets |-> {0}, bindingsAligned |-> TRUE], 0)
    \/ \E op \in {"dispatch", "dispatchWithTimingAsync"},
          failAt \in 0 .. 6, finishes \in BOOLEAN :
            DispatchUpTo(MaxSubmits + 1, op, failAt, finishes)
    \/ Complete
    \/ \E timeoutNs \in {0, UINT64_MAX},
          result \in {"VK_SUCCESS", "VK_TIMEOUT", "VK_ERROR_DEVICE_LOST"}, finishes \in BOOLEAN :
            Wait(timeoutNs, result, finishes)

SpecOverlap ==
    InitWait /\ [][NextOverlap]_vars


\* Buffer construction: in either build, on a device with any memory-type
\* table, one Buffer is constructed with any access mode, a valid or invalid
\* size, and any driver call failing in each attempt.
InitBuffer ==
    /\ memoryTypes \in MemoryTypeTables
    /\ selected = NoSelection
    /\ NoDevices
    /\ noExceptions \in BOOLEAN
    /\ IdleBuffers
    /\ IdleProgram
    /\ IdleWrappers
    /\ submission = NoSubmission
    /\ attempts = <<>>

NextBuffer ==
    \E sizeBytes \in {0, 1, UINT64_MAX \div 2 + 1}, host \in HostAccess, deviceValid \in BOOLEAN,
       memoryTypeBits \in 0 .. (2 ^ MaxMemoryTypes - 1),
       fails \in [1 .. 3 -> 0 .. 3] :
        /\ fails[2] \in {0, 2}
        /\ fails[3] \in {0, 3}
        /\ ConstructBuffer(1, sizeBytes, host, deviceValid, memoryTypeBits, fails)

SpecBuffer ==
    InitBuffer /\ [][NextBuffer]_vars

\* Push constants: a program constructed with a capacity of 0, 4 or 8 bytes
\* on a device whose maxPushConstantsSize is 4 or 8, then configured with
\* sizes and offsets that are and are not multiples of 4, up to the largest
\* 32-bit multiple of 4, written at offsets and lengths inside, across and beyond
\* the configured size, given workgroup counts and dispatched.
\* The setPushConstants calls made: null data with every size, and data of
\* either content with every size and offset (one content and one offset
\* where the call does not look at them).
PushConstantWrites ==
    {w \in [dataNull : BOOLEAN, first : 1 .. 2,
            bytes : {0, 1, 4, UINT32_MAX}, offset : {0, 1, 5}] :
        /\ w.dataNull => w.first = 1 /\ w.offset = 0
        /\ w.bytes = 0 => w.first = 1}

InitPushConstants ==
    /\ InitProgram
    /\ ~noExceptions
    /\ ~limits.supportsTimestamps

\* Every behaviour constructs one program, configures it any number of
\* times, makes up to MaxPushes writes on it and dispatches it.
NextPushConstants ==
    \/ \E info \in [spirv : {"words"}, local : {<<1, 2, 1>>},
                    pushConstantBytes : {0, 4, 8}, sets : {{}},
                    bindingsAligned : {TRUE}] : Construct(info, 0)
    \/ \E sizeBytes \in {0, 2, 4, 8, UINT32_MAX - 3},
          offset \in {0, 4, UINT32_MAX - 3} :
            submits = 0 /\ SetPushConstantConfig(sizeBytes, offset)
    \/ \E w \in PushConstantWrites :
            submits = 0 /\ SetPushConstants(w.dataNull, w.first, w.bytes, w.offset)
    \/ submits = 0 /\ SetWorkgroups(1, 1, 1)
    \/ Dispatch("dispatch", 0, TRUE)

SpecPushConstants ==
    InitPushConstants /\ [][NextPushConstants]_vars

\* Device construction alone: an enumeration of up to MaxPhysicalDevices
\* devices of every type, each with one of a few lists of queue families
\* (none, graphics only, compute with graphics, a dedicated compute family
\* second, a compute family without queues first, graphics then dedicated);
\* preferredIndex from -1 to one past the last device; both builds.
InitDevice ==
    /\ /\ selected = NoSelection
       /\ memoryTypes = <<>>
       /\ device = [phase |-> "none", preferredIndex |-> 0, phys_ |-> 0,
                    queueFamilyIndex_ |-> UINT32_MAX, device_ |-> FALSE, queue_ |-> FALSE,
                    transferCmdPool_ |-> FALSE, created |-> {}]
       /\ \E n \in 0 .. MaxPhysicalDevices :
            physicalDevices \in
                [1 .. n ->
                    [deviceType : {"DISCRETE_GPU", "INTEGRATED_GPU", "CPU", "VIRTUAL_GPU"},
                     families :
                        LET C == [queueCount |-> 1, compute |-> TRUE, graphics |-> FALSE]
                            CG == [queueCount |-> 1, compute |-> TRUE, graphics |-> TRUE]
                            G == [queueCount |-> 1, compute |-> FALSE, graphics |-> TRUE]
                            C0 == [queueCount |-> 0, compute |-> TRUE, graphics |-> FALSE]
                        IN  {<<>>, <<G>>, <<CG>>, <<CG, C>>, <<C0, CG>>, <<G, C>>}]]
       /\ noExceptions \in BOOLEAN
       /\ IdleBuffers
       /\ IdleProgram
       /\ IdleWrappers
       /\ submission = NoSubmission
       /\ attempts = <<>>

\* Every behaviour constructs one Device.
SpecDevice ==
    /\ InitDevice
    /\ [][\E instValid \in BOOLEAN, preferredIndex \in (0 - 1) .. MaxPhysicalDevices,
             failAt \in 0 .. 2, garbage \in BOOLEAN :
                ConstructDevice(instValid, preferredIndex, failAt, garbage)]_vars

InitSelect ==
    /\ memoryTypes \in MemoryTypeTables
    /\ selected = NoSelection
    /\ NoDevices
    /\ noExceptions = FALSE
    /\ IdleBuffers
    /\ IdleProgram
    /\ IdleWrappers
    /\ submission = NoSubmission
    /\ attempts = <<>>

NextSelect ==
    \E memoryTypeBits \in 0 .. (2 ^ (MaxMemoryTypes + 1) - 1), flags \in RequestedPropertyFlags :
        SelectMemory(memoryTypeBits, flags)

SpecSelect ==
    InitSelect /\ [][NextSelect]_vars

\* ------------------------------------------------------------------ claims
\* The indices selectMemory may return for (bits, flags): bit set in bits,
\* and no required flag missing from the type's propertyFlags.
Suitable(table, memoryTypeBits, flags) ==
    { i \in 0 .. (Len(table) - 1) :
        /\ BitSet(memoryTypeBits, i)
        /\ \A k \in 0 .. 3 : BitSet(flags, k) => BitSet(table[i + 1], k) }

\* C2: selectMemory returns the lowest index whose bit is set in typeBits
\* and whose flags are a superset of requiredFlags, and fails exactly when
\* there is no such index.
C2_SelectMemoryLowestSuitable ==
    selected.called =>
        LET ok == Suitable(memoryTypes, selected.memoryTypeBits, selected.flags)
        IN  /\ selected.failed <=> (ok = {})
            /\ ~selected.failed =>
                  /\ selected.index \in ok
                  /\ \A j \in ok : selected.index <= j

\* C2 witness: a call that had to skip a type whose bit was set but whose
\* flags missed a required bit, and returned a later index.
C2_Witness ==
    /\ selected.called
    /\ ~selected.failed
    /\ selected.index > 0
    /\ BitSet(selected.memoryTypeBits, 0)
    /\ BitAnd(selected.flags, memoryTypes[1]) # 0
    /\ BitAnd(selected.flags, memoryTypes[1]) # selected.flags

\* C1: mapWrite and mapRead perform no map for a range that is empty or that
\* ends past the buffer (offset + len > size, the sum not wrapped): every
\* mapping handed out was asked for with len > 0 and offset + len <= size,
\* in particular never with len > size.
C1_InvalidRangeRejected ==
    \A s \in Slots :
        LET m == mappings[s]
        IN  Live(m) => /\ m.reqLength # 0
                       /\ m.reqOffset + m.reqLength <= size_[m.buf]

\* C3: on a read-write buffer, coherent or not, the bytes read through a read
\* mapping are the bytes that write mappings handed back at their release:
\* byte k of the read mapping holds what was last released for byte
\* reqOffset + k of the buffer.
C3_WriteReleaseReadRoundTrip ==
    \A s \in Slots :
        LET m == mappings[s]
        IN  (Live(m) /\ ~m.write /\ hostAccess_[m.buf] = "ReadWrite") =>
                \A k \in 0 .. (m.reqLength - 1) :
                    (m.reqOffset + k) \in DOMAIN released[m.buf] =>
                        /\ (m.ptr + k) \in DOMAIN hostView[m.buf]
                        /\ hostView[m.buf][m.ptr + k] = released[m.buf][m.reqOffset + k]

\* C3 witness: a read mapping of a whole two-byte range of a non-coherent
\* read-write buffer with a two-byte atom, every byte of the range written
\* and released before, one of them to a value the buffer did not start with.
C3_Witness ==
    \E s \in Slots :
        LET m == mappings[s]
        IN  /\ Live(m)
            /\ ~m.write
            /\ last = Returned("mapRead", "ok")
            /\ hostAccess_[m.buf] = "ReadWrite"
            /\ ~Coherent(m.buf)
            /\ nonCoherentAtomSize = 2
            /\ m.reqLength = 2
            /\ \A k \in 0 .. (m.reqLength - 1) : (m.reqOffset + k) \in DOMAIN released[m.buf]
            /\ released[m.buf][m.reqOffset] = 1

\* C4: for every successful map of a range inside a non-coherent buffer, the
\* mapped offset and the mapped length are multiples of nonCoherentAtomSize,
\* whatever the buffer's size.
C4_MappedRangeAtomAligned ==
    \A s \in Slots :
        LET m == mappings[s]
        IN  (Live(m) /\ ~Coherent(m.buf) /\ m.reqOffset + m.reqLength <= size_[m.buf]) =>
                /\ m.offset % nonCoherentAtomSize = 0
                /\ m.length % nonCoherentAtomSize = 0

\* C5: for every successful map, the mapped range starts at or before the
\* requested offset, contains the requested range, ends inside the buffer,
\* and data() addresses the byte at the requested offset.
C5_MappedRangeContainsRequest ==
    \A s \in Slots :
        LET m == mappings[s]
        IN  Live(m) => /\ m.offset <= m.reqOffset
                       /\ m.reqOffset + m.reqLength <= m.offset + m.length
                       /\ m.offset + m.length <= size_[m.buf]
                       /\ m.ptr = m.reqOffset

C7_SetWorkgroupsWithinLimits ==
    [][\A x \in 0 .. (MaxWorkgroupCount + 1), y \in 0 .. (MaxWorkgroupCount + 1),
          z \in 0 .. (MaxWorkgroupCount + 1) :
            SetWorkgroups(x, y, z) =>
                /\ (\/ x = 0 \/ y = 0 \/ z = 0
                    \/ x > limits.maxComputeWorkGroupCount[1]
                    \/ y > limits.maxComputeWorkGroupCount[2]
                    \/ z > limits.maxComputeWorkGroupCount[3]) =>
                        /\ last' = Returned("setWorkgroups", "ConfigurationError")
                        /\ program'.groupsX_ = program.groupsX_
                        /\ program'.groupsY_ = program.groupsY_
                        /\ program'.groupsZ_ = program.groupsZ_
                /\ program'.groupsX_ \in 1 .. limits.maxComputeWorkGroupCount[1]
                /\ program'.groupsY_ \in 1 .. limits.maxComputeWorkGroupCount[2]
                /\ program'.groupsZ_ \in 1 .. limits.maxComputeWorkGroupCount[3]]_vars

\* C7 witness: a call was rejected on a program whose counts an earlier call
\* had set, on a device whose limits differ between the axes.
C7_Witness ==
    /\ last = Returned("setWorkgroups", "ConfigurationError")
    /\ program.groupsX_ = 2
    /\ program.groupsY_ = 1
    /\ limits.maxComputeWorkGroupCount[2] = 1

\* C8: a ComputeProgram constructed with a pushConstantBytes that is not a
\* multiple of 4 or that exceeds maxPushConstantsSize fails with a
\* configuration error and no driver object of it is ever created; it is
\* never initialized.
C8_BadPushConstantsCreateNothing ==
    (/\ program.phase # "none"
     /\ \/ program.pcCapacityBytes_ % 4 # 0
        \/ program.pcCapacityBytes_ > limits.maxPushConstantsSize) =>
        /\ \A h \in Handles : driverObjects[h] = "none"
        /\ \A i \in DOMAIN driverSetLayouts : driverSetLayouts[i] = "none"
        /\ ~program.initialized_
        /\ last.op = "ComputeProgram" => last.outcome = "ConfigurationError"

\* C8 witness: the constructor failed on a size that is a multiple of 4 and
\* exceeds the device's limit.
C8_Witness ==
    /\ last = Returned("ComputeProgram", "ConfigurationError")
    /\ program.pcCapacityBytes_ = 8
    /\ limits.maxPushConstantsSize = 4

\* C9: when a driver call of the constructor has failed, then at the
\* constructor's exit no driver object of the program is live and none was
\* destroyed without being live: each object created before the failure was
\* destroyed exactly once.
C9_FailedConstructionReleasesAll ==
    (last.op = "ComputeProgram" /\ last.outcome \in {"DriverError", "DriverErrorLogged"}) =>
        /\ \A h \in Handles : driverObjects[h] \in {"none", "destroyed"}
        /\ \A i \in DOMAIN driverSetLayouts : driverSetLayouts[i] \in {"none", "destroyed"}

\* C10: in both builds, a program whose construction had a driver call fail
\* is never initialized, and nothing is recorded or submitted for it.
C10_FailedConstructionNeverInitialized ==
    (program.phase = "object" /\ program.failedCall # 0) =>
        /\ ~program.initialized_
        /\ recorded = <<>>
        /\ submits = 0

\* The device-side objects of the program, set layouts included.
ProgramDriverObjects ==
    {driverObjects[h] : h \in Handles} \cup {driverSetLayouts[i] : i \in 0 .. MaxSetIndex}

\* C11: teardown of a ComputeProgram is idempotent.  Once a program has been
\* torn down, a further teardown() or the destructor makes no driver call
\* (no driver object changes), and over any number of teardowns no object is
\* destroyed twice or destroyed without having been created.
C11_TeardownIdempotent ==
    [][/\ "misused" \notin ProgramDriverObjects'
       /\ (program.phase = "object" /\ program.tornDown_ =>
              /\ driverObjects' = driverObjects
              /\ driverSetLayouts' = driverSetLayouts
              /\ program'.tornDown_)]_vars

\* A program with objects that was torn down explicitly, torn down again
\* and then destructed.
C11_Witness ==
    /\ program.phase = "destructed"
    /\ program.teardowns = 3
    /\ program.failedCall = 0
    /\ driverObjects["shader_"] = "destroyed"
    /\ driverSetLayouts[0] = "destroyed"

\* The wrappers of a class that hold the handle h of construction g: for a
\* ComputeProgram h is a member of Handles or "setLayouts_", the layout of
\* set 0.
Owners(class, g, h) ==
    {s \in Wrappers :
        LET w == wrappers[class][s]
        IN  /\ w.life = "alive"
            /\ w.gen = g
            /\ IF class = "ComputeProgram"
               THEN IF h \in Handles THEN w.p.handle[h]
                    ELSE 1 \in DOMAIN w.p.setLayouts_ /\ w.p.setLayouts_[1]
               ELSE w[h]}

\* The driver's view of the handle h of construction g.
HandleState(class, g, h) ==
    IF class = "ComputeProgram"
    THEN IF h \in Handles THEN driverHandles[class][g].objects[h]
         ELSE driverHandles[class][g].layouts[0]
    ELSE driverHandles[class][g][h]

HandleNames(class) ==
    IF class = "Device" THEN {"device_", "transferCmdPool_"}
    ELSE IF class = "Buffer" THEN {"buffer_", "memory_"}
    ELSE Handles \cup {"setLayouts_"}

\* C12: whatever moves and destructions are made over Devices, Buffers and
\* ComputePrograms, a driver handle that is live is held by exactly one
\* wrapper, a destroyed one by none, and none is destroyed twice: so every
\* handle is destroyed exactly once by the time its wrappers are gone.
C12_HandlesOwnedOnceDestroyedOnce ==
    \A class \in {"Device", "Buffer", "ComputeProgram"}, g \in Wrappers :
        \A h \in HandleNames(class) :
            /\ HandleState(class, g, h) # "misused"
            /\ HandleState(class, g, h) = "live" => Cardinality(Owners(class, g, h)) = 1
            /\ HandleState(class, g, h) = "destroyed" => Owners(class, g, h) = {}

\* The program is not in the built state: it was default-constructed, its
\* construction failed, it was moved from, or it was torn down.
NotBuilt ==
    /\ program.phase = "object"
    /\ \/ program.made \in {"default", "invalid", "failed", "moved-from"}
       \/ program.tornDown_

\* C13: a call of a dispatch entry point on a program that is not in the
\* built state ends with a state error, and no driver call is made for it:
\* nothing is reset, recorded or submitted.
C13_DispatchNeedsBuiltProgram ==
    [][(NotBuilt /\ last'.op \in DispatchOps) =>
            /\ last'.outcome = "StateError"
            /\ recorded' = recorded
            /\ submits' = submits]_vars

\* The calls of a log without the instrumentation: debug labels, query-pool
\* resets and timestamps.
RECURSIVE Essential(_)
Essential(log) ==
    IF log = <<>> THEN <<>>
    ELSE (IF Head(log).call \in
                {"vkCmdResetQueryPool", "vkCmdWriteTimestamp 0", "vkCmdWriteTimestamp 1",
                 "vkCmdBeginDebugUtilsLabelEXT easyvk::dispatch",
                 "vkCmdBeginDebugUtilsLabelEXT easyvk::dispatchNoHostBarrier",
                 "vkCmdEndDebugUtilsLabelEXT"}
          THEN <<>> ELSE <<Head(log)>>)
         \o Essential(Tail(log))

\* The order the dispatch op of the program is to follow.
DispatchOrder(op) ==
    LET one(name) == <<[call |-> name, args |-> <<>>]>>
    IN  one("vkResetCommandBuffer") \o one("vkBeginCommandBuffer")
        \o one("vkCmdBindPipeline")
        \o (IF program.descriptorSets_ THEN one("vkCmdBindDescriptorSets") ELSE <<>>)
        \o (IF program.pcCfg_.sizeBytes > 0
            THEN <<[call |-> "vkCmdPushConstants",
                    args |-> <<program.pcCfg_.offset, program.pcCfg_.sizeBytes>>]>>
            ELSE <<>>)
        \o one("vkCmdPipelineBarrier host write to shader read")
        \o <<[call |-> "vkCmdDispatch",
              args |-> <<program.groupsX_, program.groupsY_, program.groupsZ_>>]>>
        \o (IF op # "dispatchNoHostBarrier"
            THEN one("vkCmdPipelineBarrier shader write to host read") ELSE <<>>)
        \o one("vkEndCommandBuffer") \o one("vkCreateFence") \o one("vkQueueSubmit")

\* C14: every dispatch of an initialized program resets the command buffer,
\* begins it, binds the pipeline, binds the descriptor sets if there are any,
\* pushes the constants if their configured size is not 0, records the
\* host-write to shader-read barrier, the dispatch with the current workgroup
\* counts, the shader-write to host-read barrier unless the entry point is
\* dispatchNoHostBarrier, ends the command buffer and submits it with a new
\* fence, in this order; a dispatch that a failing call cuts short made a
\* prefix of these calls.
C14_DispatchOrder ==
    [][(program.phase = "object" /\ program.initialized_ /\ last'.op \in DispatchOps) =>
            /\ Len(Essential(recorded')) <= Len(DispatchOrder(last'.op))
            /\ Essential(recorded') =
                    SubSeq(DispatchOrder(last'.op), 1, Len(Essential(recorded')))
            /\ (last'.outcome = "ok" \/ noExceptions) =>
                    Essential(recorded') = DispatchOrder(last'.op)]_vars

\* A program with descriptor sets, push constants and workgroup counts other
\* than 1 was dispatched without the final barrier.
C14_Witness ==
    /\ last = Returned("dispatchNoHostBarrier", "ok")
    /\ program.made = "built"
    /\ program.descriptorSets_
    /\ program.pcCfg_.sizeBytes = 4
    /\ <<program.groupsX_, program.groupsY_, program.groupsZ_>> = <<1, MaxWorkgroupCount, 2>>
    /\ Len(recorded) = Len(DispatchOrder("dispatch")) - 1
    /\ recorded[7] = [call |-> "vkCmdDispatch", args |-> <<1, MaxWorkgroupCount, 2>>]

\* C15: after a synchronous dispatch(), or dispatchWithTimingNs(), that
\* returned without error and whose wait the driver did not fail, the
\* submitted work has completed; and a read mapping of the result buffer made
\* after it reads, for every byte both operands were written at through
\* release of write mappings, the sum of the two bytes released: the shader saw
\* the host's writes and the host sees the shader's, on coherent and
\* non-coherent memory alike.
C15_DispatchThenReadSeesResult ==
    (/\ submission.op \in {"dispatch", "dispatchWithTimingNs"}
     /\ submission.waitResult # "VK_ERROR_DEVICE_LOST"
     /\ (last.op = submission.op => last.outcome = "ok")) =>
        /\ submission.work = "done"
        /\ \A s \in Slots :
            LET m == mappings[s]
            IN  (Live(m) /\ ~m.write /\ m.buf = 3) =>
                    \A k \in 0 .. (m.reqLength - 1) :
                        LET i == m.reqOffset + k
                        IN  (i \in DOMAIN released[1] /\ i \in DOMAIN released[2]) =>
                                hostView[3][m.ptr + k] = released[1][i] + released[2][i]

\* C15 witness: on non-coherent memory with a two-byte atom, both operands
\* written and released whole, dispatch() returned true, and the whole result
\* is mapped for reading; the first sum is 2.
C15_Witness ==
    /\ submission.op = "dispatch"
    /\ submission.waitResult = "VK_SUCCESS"
    /\ last = Returned("mapRead", "ok")
    /\ \A b \in 1 .. 3 : ~Coherent(b)
    /\ nonCoherentAtomSize = 2
    /\ Live(mappings[1]) /\ mappings[1].buf = 3 /\ mappings[1].reqLength = 2
    /\ \A i \in 0 .. 1 : i \in DOMAIN released[1] /\ i \in DOMAIN released[2]
    /\ released[1][0] = 1 /\ released[2][0] = 1
    /\ hostView[3][0] = 2

\* The flags Buffer construction asks for with the access mode host, in order.
FallbackOrder(host) ==
    IF host = "None"
    THEN <<VK_MEMORY_PROPERTY_DEVICE_LOCAL_BIT>>
    ELSE <<VK_MEMORY_PROPERTY_HOST_VISIBLE_BIT + VK_MEMORY_PROPERTY_HOST_COHERENT_BIT,
           VK_MEMORY_PROPERTY_HOST_VISIBLE_BIT + VK_MEMORY_PROPERTY_HOST_CACHED_BIT,
           VK_MEMORY_PROPERTY_HOST_VISIBLE_BIT>>

\* C16, the order of the attempts: the construction asks for the flags of
\* FallbackOrder in order, stops at the first attempt that succeeds, fails
\* only after the last of them failed, and stores the flags of the attempt
\* that succeeded.
FallbackOrderFollowed ==
    attempts # <<>> =>
        LET order == FallbackOrder(attempts[1].host)
            n == Len(attempts)
        IN  /\ n <= Len(order)
            /\ \A k \in 1 .. n : attempts[k].props = order[k]
            /\ \A k \in 1 .. (n - 1) : ~attempts[k].ok
            /\ (last.outcome = "ok") = attempts[n].ok
            /\ ~attempts[n].ok => n = Len(order)
            /\ attempts[n].ok => memFlags_[1] = attempts[n].props

\* C16: Buffer construction follows the fallback order as above, and every
\* failed attempt leaves no buffer handle and no memory allocation behind:
\* what it created it destroyed.
C16_BufferFallbackChain ==
    /\ FallbackOrderFollowed
    /\ \A k \in 1 .. Len(attempts) :
            ~attempts[k].ok => /\ attempts[k].buffer_ \in {"none", "destroyed"}
                               /\ attempts[k].memory_ \in {"none", "destroyed"}

LetGo ==
    { m \in { mappings[s] : s \in Slots } :
        Live(m) /\ \A s \in Slots : mappings'[s] # m }

\* C18: a destructor or a move assignment that lets go of a write mapping of
\* non-coherent memory flushes the mapped range once, then unmaps; one that
\* lets go of any other mapping only unmaps; and a BufferMapping operation
\* that lets go of nothing (on a moved-from or default-constructed mapping,
\* or a move construction) makes no driver call.  A flush that throws ends
\* the program after the one flush, before the unmap.
C18_ReleaseFlushesOnceThenUnmaps ==
    [][last'.op \in {"~BufferMapping", "BufferMapping::operator=",
                     "BufferMapping(BufferMapping &&)"} =>
        IF terminated' /\ ~terminated
        THEN \E s \in Slots :
                LET m == mappings[s]
                IN  /\ Live(m) /\ m.write /\ ~Coherent(m.buf)
                    /\ mapCalls' = <<[call |-> "vkFlushMappedMemoryRanges", buf |-> m.buf,
                                      bytes |-> BytesOf(m.buf, m.offset, m.length)]>>
        ELSE IF LetGo = {} THEN mapCalls' = <<>>
        ELSE \E m \in LetGo :
                /\ LetGo = {m}
                /\ mapCalls' =
                     (IF m.write /\ ~Coherent(m.buf)
                      THEN <<[call |-> "vkFlushMappedMemoryRanges", buf |-> m.buf,
                              bytes |-> BytesOf(m.buf, m.offset, m.length)]>>
                      ELSE <<>>)
                     \o <<[call |-> "vkUnmapMemory", buf |-> m.buf, bytes |-> {}]>>]_vars

\* C18 witness: a move assignment has let go of a write mapping of
\* non-coherent memory, with a flush and an unmap, and the BufferMapping
\* assigned to now holds the other buffer's mapping.
C18_Witness ==
    /\ last = Returned("BufferMapping::operator=", "ok")
    /\ Len(mapCalls) = 2
    /\ mapCalls[1].call = "vkFlushMappedMemoryRanges"
    /\ mapCalls[2].call = "vkUnmapMemory"
    /\ \E s \in Slots : Live(mappings[s]) /\ mappings[s].buf # mapCalls[1].buf

\* C19: a mapRead that returns a mapping of non-coherent memory has mapped
\* the aligned range and then invalidated that same range, in this order and
\* before the mapping exists for the caller; on coherent memory it has only
\* mapped, and no invalidation is ever issued for coherent memory; an
\* operation that lets go of a read mapping neither invalidates nor flushes.
C19_MapReadInvalidatesFirst ==
    [][/\ (last'.op = "mapRead" /\ last'.outcome = "ok") =>
            \E s \in Slots :
                LET m == mappings'[s]
                    mapped == [call |-> "vkMapMemory", buf |-> m.buf,
                               bytes |-> BytesOf(m.buf, m.offset, m.length)]
                IN  /\ mappings[s] = NoMapping
                    /\ Live(m) /\ ~m.write
                    /\ mapCalls' = IF Coherent(m.buf) THEN <<mapped>>
                                   ELSE <<mapped,
                                          [mapped EXCEPT !.call = "vkInvalidateMappedMemoryRanges"]>>
       /\ \A k \in 1 .. Len(mapCalls') :
            mapCalls'[k].call = "vkInvalidateMappedMemoryRanges" =>
                /\ ~Coherent(mapCalls'[k].buf)
                /\ last'.op = "mapRead"
       /\ (\E m \in LetGo : ~m.write) =>
            \A k \in 1 .. Len(mapCalls') : mapCalls'[k].call = "vkUnmapMemory"]_vars

\* C19 witness: a read mapping of the second byte of a non-coherent buffer,
\* atom size 2: the map and the invalidation both cover bytes 0 and 1.
C19_Witness ==
    /\ last = Returned("mapRead", "ok")
    /\ nonCoherentAtomSize = 2
    /\ Len(mapCalls) = 2
    /\ mapCalls[2].call = "vkInvalidateMappedMemoryRanges"
    /\ mapCalls[2].bytes = {0, 1}
    /\ \E s \in Slots : Live(mappings[s]) /\ mappings[s].buf = mapCalls[2].buf
                        /\ mappings[s].reqOffset = 1

\* C20: a Device::wait on a handle with a non-null fence destroys the fence
\* and frees the handle's command buffer if it has one, whatever
\* vkWaitForFences answered, and returns true exactly when the answer was
\* VK_SUCCESS; on a handle with a null fence it returns false and no driver
\* object changes.
C20_WaitConsumesHandle ==
    [][(last'.op = "wait" /\ submission'.waits = submission.waits + 1) =>
        IF ~submission.handle.fence
        THEN /\ last'.outcome = "false"
             /\ submission' = [submission EXCEPT !.waits = @ + 1]
             /\ UNCHANGED <<driverObjects, driverSetLayouts, driverHandles>>
        ELSE /\ submission'.fence = Destroyed(submission.fence)
             /\ submission'.cmdBuf = IF submission.handle.cmdBuf
                                     THEN Destroyed(submission.cmdBuf)
                                     ELSE submission.cmdBuf
             /\ (last'.outcome = "true") = (submission'.waitResult = "VK_SUCCESS")
             /\ last'.outcome \in {"true", "false"}
             /\ UNCHANGED <<driverObjects, driverSetLayouts, driverHandles>>]_vars

\* C20 witness: a wait on the handle of a submitted copy timed out; the
\* fence is destroyed and the command buffer freed, and false was returned.
C20_Witness ==
    /\ last = Returned("wait", "false")
    /\ submission.op = "copyToAsync"
    /\ submission.waits = 1
    /\ submission.waitResult = "VK_TIMEOUT"
    /\ submission.fence = "destroyed"
    /\ submission.cmdBuf = "destroyed"

\* The devices of the enumeration, by place, that have a queue family with
\* queues that supports compute.
ComputeCapable ==
    { i \in 1 .. Len(physicalDevices) :
        \E k \in 1 .. Len(physicalDevices[i].families) :
            /\ physicalDevices[i].families[k].queueCount > 0
            /\ physicalDevices[i].families[k].compute }

\* The score of a device type: discrete 3, integrated 2, cpu 1, other 0.
TypeScore(deviceType) ==
    CASE deviceType = "DISCRETE_GPU" -> 3
      [] deviceType = "INTEGRATED_GPU" -> 2
      [] deviceType = "CPU" -> 1
      [] OTHER -> 0

\* The Device constructor got as far as choosing a physical device.
DeviceChosen ==
    /\ last.op = "Device"
    /\ last.outcome # "StateError"
    /\ Len(physicalDevices) > 0

\* C21: the physical device chosen is the one preferredIndex names when that
\* index is within the enumeration and the device has a compute-capable queue
\* family, whatever its score; otherwise it is the first, in enumeration
\* order, of the compute-capable devices with the highest score (discrete 3 >
\* integrated 2 > cpu 1 > other 0); a device without a compute-capable queue
\* family is never chosen.
C21_PreferredElseBestScore ==
    DeviceChosen =>
        /\ device.phys_ # 0 => device.phys_ \in ComputeCapable
        /\ IF /\ device.preferredIndex >= 0
              /\ device.preferredIndex < Len(physicalDevices)
              /\ (device.preferredIndex + 1) \in ComputeCapable
           THEN device.phys_ = device.preferredIndex + 1
           ELSE \A i \in ComputeCapable :
                    /\ device.phys_ # 0
                    /\ TypeScore(physicalDevices[i].deviceType)
                            <= TypeScore(physicalDevices[device.phys_].deviceType)
                    /\ TypeScore(physicalDevices[i].deviceType)
                            = TypeScore(physicalDevices[device.phys_].deviceType)
                        => device.phys_ <= i

\* C21 witness: the preferred index names a compute-capable CPU device, which
\* is chosen although a discrete one follows it.
C21_Witness ==
    /\ DeviceChosen
    /\ Len(physicalDevices) = 2
    /\ ComputeCapable = {1, 2}
    /\ physicalDevices[1].deviceType = "CPU"
    /\ physicalDevices[2].deviceType = "DISCRETE_GPU"
    /\ device.preferredIndex = 0
    /\ device.phys_ = 1

\* Without a usable preferred index, the second of two devices is chosen
\* for its higher score; with equal scores the first is.
C21_ScoreDecides ==
    /\ DeviceChosen
    /\ Len(physicalDevices) = 2
    /\ ComputeCapable = {1, 2}
    /\ device.preferredIndex = 2
    /\ \/ /\ physicalDevices[1].deviceType = "INTEGRATED_GPU"
          /\ physicalDevices[2].deviceType = "DISCRETE_GPU"
          /\ device.phys_ = 2
       \/ /\ physicalDevices[1].deviceType = physicalDevices[2].deviceType
          /\ device.phys_ = 1

\* C22: the queue family of a constructed Device is the lowest-index family
\* with queues that supports compute but not graphics if the chosen device has
\* one, otherwise its lowest-index family with queues that supports compute;
\* when no device has such a family, construction fails and no logical
\* device, queue or command pool is created.
C22_QueueFamilyDedicatedFirst ==
    DeviceChosen =>
        IF ComputeCapable = {}
        THEN /\ last.outcome \notin {"ok", "DriverErrorLogged", "DriverError"}
             /\ device.phase = "thrown" \/ noExceptions
             /\ device.created = {}
             /\ ~device.device_ /\ ~device.queue_ /\ ~device.transferCmdPool_
        ELSE LET families == physicalDevices[device.phys_].families
                 qualifies(k, dedicated) ==
                    /\ families[k].queueCount > 0
                    /\ families[k].compute
                    /\ dedicated => ~families[k].graphics
                 k == device.queueFamilyIndex_ + 1
                 dedicatedExists == \E j \in 1 .. Len(families) : qualifies(j, TRUE)
             IN  /\ device.phys_ # 0
                 /\ k \in 1 .. Len(families)
                 /\ qualifies(k, dedicatedExists)
                 /\ \A j \in 1 .. (k - 1) : ~qualifies(j, dedicatedExists)

\* C22 witness: the chosen device has a graphics-and-compute family first and
\* a compute-only family second; the second is taken and the Device is
\* constructed.
C22_Witness ==
    /\ last = Returned("Device", "ok")
    /\ device.phys_ # 0
    /\ Len(physicalDevices[device.phys_].families) = 2
    /\ physicalDevices[device.phys_].families[1].compute
    /\ physicalDevices[device.phys_].families[1].graphics
    /\ physicalDevices[device.phys_].families[1].queueCount > 0
    /\ device.queueFamilyIndex_ = 1
    /\ device.created = {"VkDevice", "VkCommandPool"}

\* No device of a non-empty enumeration has a compute queue family, and the
\* construction ended with the error and nothing created.
C22_NoComputeAnywhere ==
    /\ DeviceChosen
    /\ ComputeCapable = {}
    /\ Len(physicalDevices) = 2
    /\ last.outcome = "No suitable physical device found"
    /\ device.created = {}

\* A step taken on a constructed ComputeProgram that leaves it an object.
StepOnBuiltProgram ==
    /\ program.phase = "object"
    /\ program.made = "built"
    /\ program'.phase = "object"

\* The descriptor sets, the pipeline with the rest of the driver objects, the
\* pipeline layout with the push-constant range declared in it, and the local
\* workgroup size stay as construction left them.
BindingsPipelineAndLocalSizeKept ==
    /\ program'.handle = program.handle
    /\ program'.setLayouts_ = program.setLayouts_
    /\ program'.descriptorSets_ = program.descriptorSets_
    /\ program'.pcCapacityBytes_ = program.pcCapacityBytes_
    /\ program'.local_ = program.local_
    /\ UNCHANGED <<driverObjects, driverSetLayouts>>

\* The part of C23 about descriptor sets, pipeline, layout and local size.
C23_BindingsPipelineFixed ==
    [][StepOnBuiltProgram => BindingsPipelineAndLocalSizeKept]_vars

\* C23: after construction no public operation changes the bound descriptor
\* sets, the pipeline, the pipeline layout with its declared push-constant
\* range, or the local workgroup size, and the only program state a
\* post-construction call can change is the push-constant payload bytes and
\* the workgroup count: in particular the configured push-constant size and
\* offset stay what construction made them.
C23_OnlyPayloadAndCountChange ==
    [][StepOnBuiltProgram =>
            /\ BindingsPipelineAndLocalSizeKept
            /\ program'.pcCfg_ = program.pcCfg_
            /\ program'.initialized_ = program.initialized_
            /\ program'.tornDown_ = program.tornDown_]_vars

\* C24: after construction and after every setPushConstantConfig call,
\* accepted or rejected, with any 32-bit size and offset, the configured
\* push-constant size and offset are multiples of 4 and their sum, taken
\* without wrap-around, is at most the device's maxPushConstantsSize; a
\* rejected call leaves the configuration and the payload unchanged.
C24_PushConstantConfigWithinLimit ==
    [][/\ (program'.phase = "object" /\ program'.made = "built") =>
            /\ program'.pcCfg_.sizeBytes % 4 = 0
            /\ program'.pcCfg_.offset % 4 = 0
            /\ program'.pcCfg_.sizeBytes + program'.pcCfg_.offset
                    <= limits.maxPushConstantsSize
       /\ (last'.op = "setPushConstantConfig" /\ last'.outcome # "ok") =>
            /\ program'.pcCfg_ = program.pcCfg_
            /\ program'.pcData_ = program.pcData_]_vars

\* C25: a setPushConstants(data, bytes, offset) call whose span
\* [offset, offset + bytes) extends beyond the configured push-constant
\* capacity is clamped to the capacity: the payload buffer keeps its length,
\* the bytes of the span that lie within the capacity take the caller's data
\* and the other bytes are unchanged.
C25_WritesClampedToCapacity ==
    [][last'.op = "setPushConstants" =>
        \A first \in 1 .. 2, bytes \in 1 .. UINT32_MAX, offset \in 0 .. UINT32_MAX :
            (/\ offset + bytes > program.pcCfg_.sizeBytes
             /\ Len(program.pcData_) = program.pcCfg_.sizeBytes
             /\ SetPushConstants(FALSE, first, bytes, offset)) =>
                /\ Len(program'.pcData_) = Len(program.pcData_)
                /\ \A k \in 1 .. Len(program.pcData_) :
                        program'.pcData_[k] =
                            IF k - 1 >= offset /\ k - 1 < offset + bytes
                            THEN PushData(first, k - 1 - offset)
                            ELSE program.pcData_[k]]_vars

\* C26: every dispatch of a program, synchronous or asynchronous, is recorded
\* into the command buffer allocated at construction and signalled through
\* the fence created at construction: the calls a dispatch makes allocate no
\* command buffer and create no fence, and the fence the caller's handle
\* carries, if any, is none the dispatch made.
C26_OneCommandBufferOneFence ==
    [][(program.phase = "object" /\ program.initialized_ /\ last'.op \in DispatchOps) =>
            /\ \A k \in 1 .. Len(recorded') :
                    recorded'[k].call \notin {"vkAllocateCommandBuffers", "vkCreateFence"}
            /\ driverObjects' = driverObjects]_vars

\* No driver object exists and none is recorded as made by the program.
NoDriverObjectMade ==
    /\ \A h \in Handles : driverObjects'[h] = "none"
    /\ \A i \in 0 .. MaxSetIndex : driverSetLayouts'[i] = "none"

\* C27: construction rejects, before any driver object is created, a shader
\* binary that is absent or empty and a non-empty one whose first word is not
\* 0x07230203; a non-empty binary whose first word is 0x07230203 is not
\* rejected for its binary.
C27_ShaderBinaryChecked ==
    [][\A info \in ValidateInfos :
            (/\ program'.local_ = info.local
             /\ program'.pcCapacityBytes_ = info.pushConstantBytes
             /\ Construct(info, 0)) =>
                /\ info.spirv \in {"null", "empty", "foreign"} =>
                        /\ last'.outcome = "ConfigurationError"
                        /\ NoDriverObjectMade
                /\ (/\ info.spirv = "words"
                    /\ validate([info EXCEPT !.spirv = "words"])) =>
                        last'.outcome = "ok"]_vars

\* The local size of the info breaks one of the three conditions: an axis
\* is 0, an axis is above the device's limit for it, or the product of the
\* axes is above maxComputeWorkGroupInvocations.
LocalSizeRefused(local) ==
    \/ \E a \in 1 .. 3 : local[a] = 0
    \/ \E a \in 1 .. 3 : local[a] > limits.maxComputeWorkGroupSize[a]
    \/ local[1] * local[2] * local[3] > limits.maxComputeWorkGroupInvocations

\* C28: construction rejects, before any driver object is created, a local
\* workgroup size with an axis of 0, an axis above the device's limit for
\* that axis, or a product (taken without wrap-around) above
\* maxComputeWorkGroupInvocations; a size that meets all three conditions
\* is not rejected for its size: with a non-empty binary, an accepted
\* push-constant size and no bindings the construction succeeds.
C28_LocalSizeChecked ==
    [][\A info \in ValidateInfos :
            (/\ program'.local_ = info.local
             /\ program'.pcCapacityBytes_ = info.pushConstantBytes
             /\ Construct(info, 0)) =>
                /\ LocalSizeRefused(info.local) =>
                        /\ last'.outcome = "ConfigurationError"
                        /\ NoDriverObjectMade
                /\ (/\ ~LocalSizeRefused(info.local)
                    /\ info.spirv \in {"words", "foreign"}) =>
                        last'.outcome = "ok"]_vars

\* A construction was rejected for the product alone: every axis is at least
\* 1 and within its limit, and the product is above the limit and would fit
\* it after a wrap in 32 bits.
C28_Witness ==
    /\ last = Returned("ComputeProgram", "ConfigurationError")
    /\ program.made = "invalid"
    /\ \A a \in 1 .. 3 : program.local_[a] \in 1 .. limits.maxComputeWorkGroupSize[a]
    /\ program.local_[1] * program.local_[2] * program.local_[3]
            > limits.maxComputeWorkGroupInvocations
    /\ (program.local_[1] * program.local_[2] * program.local_[3]) % (UINT32_MAX + 1)
            <= limits.maxComputeWorkGroupInvocations
    /\ \A h \in Handles : driverObjects[h] = "none"

\* A construction with a local size at the limit of every axis and of the
\* product succeeded.
C28_AtTheLimits ==
    /\ last = Returned("ComputeProgram", "ok")
    /\ program.made = "built"
    /\ \E a \in 1 .. 3 : program.local_[a] = limits.maxComputeWorkGroupSize[a]
    /\ program.local_[1] * program.local_[2] * program.local_[3]
            = limits.maxComputeWorkGroupInvocations

\* Some buffer of the entries has an offset that is not a multiple of the
\* minimum alignment of its entry's own type.
SomeOffsetMisaligned(entries) ==
    \E e \in 1 .. Len(entries) : \E b \in 1 .. Len(entries[e].buffers) :
        \/ /\ entries[e].type = "UNIFORM_BUFFER"
           /\ entries[e].buffers[b] % limits.minUniformBufferOffsetAlignment # 0
        \/ /\ entries[e].type = "STORAGE_BUFFER"
           /\ entries[e].buffers[b] % limits.minStorageBufferOffsetAlignment # 0

\* The info of a construction with the given bindings and nothing else to
\* reject.
InfoWithBindings(entries) ==
    [spirv |-> "words", local |-> <<1, 1, 1>>, pushConstantBytes |-> 0,
     sets |-> {0}, bindingsAligned |-> ComputeBindingsValidate(entries)]

\* C29: construction rejects, before any driver object is created, a binding
\* list with a buffer whose descriptor offset is not a multiple of the minimum
\* alignment of its entry's type (minUniformBufferOffsetAlignment for a
\* uniform entry, minStorageBufferOffsetAlignment for a storage entry); the
\* alignment of the other type never rejects an entry.
C29_OffsetsAlignedPerType ==
    [][\A entries \in BindingLists :
            (/\ program'.local_ = <<1, 1, 1>>
             /\ program'.pcCapacityBytes_ = 0
             /\ Construct(InfoWithBindings(entries), 0)) =>
                /\ SomeOffsetMisaligned(entries) =>
                        /\ last'.outcome = "ConfigurationError"
                        /\ NoDriverObjectMade
                /\ ~SomeOffsetMisaligned(entries) => last'.outcome = "ok"]_vars

\* A construction was rejected on a device whose storage alignment is above
\* its uniform alignment: there is a binding list with an offset that is a
\* multiple of the uniform alignment and not of the storage alignment, which
\* is rejected in a storage entry and accepted in a uniform entry.
C29_Witness ==
    /\ last = Returned("ComputeProgram", "ConfigurationError")
    /\ program.made = "invalid"
    /\ program.local_ = <<1, 1, 1>>
    /\ limits.minUniformBufferOffsetAlignment < limits.minStorageBufferOffsetAlignment
    /\ \E entries \in BindingLists :
            /\ Len(entries) = 1
            /\ entries[1].type = "STORAGE_BUFFER"
            /\ ~ComputeBindingsValidate(entries)
            /\ ComputeBindingsValidate(<<[entries[1] EXCEPT !.type = "UNIFORM_BUFFER"]>>)
    /\ \A h \in Handles : driverObjects[h] = "none"

\* The two timed entry points.
TimedOps ==
    {"dispatchWithTimingNs", "dispatchWithTimingAsync"}

\* The calls of the log that touch the query pool.
QueryPoolCalls ==
    {"vkCmdResetQueryPool", "vkCmdWriteTimestamp 0", "vkCmdWriteTimestamp 1"}

\* C30: a timed dispatch of a program with a timestamp query pool records the
\* reset of the pool before any timestamp write, timestamp 0 as the command
\* directly before the dispatch command and timestamp 1 as the command
\* directly after it, before the final barrier; the timestamps are read back
\* only by dispatchWithTimingNs and only after the wait on the submission's
\* fence returned success.  Without timestamp support dispatchWithTimingNs
\* records what dispatch() records, reads nothing back and returns 0.
C30_TimedDispatch ==
    [][(program.phase = "object" /\ program.initialized_ /\ last'.op \in TimedOps) =>
            IF supportsTimestamps
            THEN /\ \A k \in 1 .. Len(recorded') :
                        recorded'[k].call \in {"vkCmdWriteTimestamp 0", "vkCmdWriteTimestamp 1"} =>
                            \E j \in 1 .. (k - 1) : recorded'[j].call = "vkCmdResetQueryPool"
                 /\ \A k \in 1 .. Len(recorded') :
                        recorded'[k].call = "vkCmdDispatch" =>
                            /\ 1 < k /\ k < Len(recorded')
                            /\ recorded'[k - 1].call = "vkCmdWriteTimestamp 0"
                            /\ recorded'[k + 1].call = "vkCmdWriteTimestamp 1"
                 /\ \A k \in 1 .. Len(recorded') :
                        recorded'[k].call = "vkCmdPipelineBarrier shader write to host read" =>
                            recorded'[k - 1].call = "vkCmdWriteTimestamp 1"
                 /\ (\E k \in 1 .. Len(recorded') : recorded'[k].call = "vkCmdBindPipeline") =>
                        \E k \in 1 .. Len(recorded') : recorded'[k].call = "vkCmdDispatch"
                 /\ submission'.queried =>
                        /\ submission'.op = "dispatchWithTimingNs"
                        /\ submission'.waitResult = "VK_SUCCESS"
                 /\ submission'.ns = "elapsed" => submission'.queried
                 /\ (last' = Returned("dispatchWithTimingNs", "ok")) => submission'.queried
            ELSE last'.op = "dispatchWithTimingNs" =>
                 /\ \A k \in 1 .. Len(recorded') : recorded'[k].call \notin QueryPoolCalls
                 /\ Len(Essential(recorded')) <= Len(DispatchOrder("dispatch"))
                 /\ Essential(recorded') =
                        SubSeq(DispatchOrder("dispatch"), 1, Len(Essential(recorded')))
                 /\ last'.outcome = "ok" =>
                        /\ Essential(recorded') = DispatchOrder("dispatch")
                        /\ ~submission'.queried
                        /\ submission'.ns = "0.0"]_vars

\* dispatchWithTimingNs on a program with a query pool returned the elapsed
\* time: the log holds the reset, then timestamp 0, the dispatch, timestamp 1
\* and the final barrier next to each other, and the wait succeeded.
C30_Witness ==
    /\ last = Returned("dispatchWithTimingNs", "ok")
    /\ supportsTimestamps
    /\ submission.queried
    /\ submission.ns = "elapsed"
    /\ submission.waitResult = "VK_SUCCESS"
    /\ \E k \in 2 .. (Len(recorded) - 2) :
            /\ recorded[k - 1].call = "vkCmdWriteTimestamp 0"
            /\ recorded[k].call = "vkCmdDispatch"
            /\ recorded[k + 1].call = "vkCmdWriteTimestamp 1"
            /\ recorded[k + 2].call = "vkCmdPipelineBarrier shader write to host read"
            /\ \E j \in 1 .. (k - 2) : recorded[j].call = "vkCmdResetQueryPool"

\* dispatchWithTimingNs on a built program without timestamp support returned
\* 0 after one ordinary dispatch.
C30_UnsupportedReturnsZero ==
    /\ last = Returned("dispatchWithTimingNs", "ok")
    /\ program.made = "built"
    /\ ~supportsTimestamps
    /\ submission.ns = "0.0"
    /\ ~submission.queried
    /\ submits = 1
    /\ \E k \in 1 .. Len(recorded) : recorded[k].call = "vkCmdDispatch"

\* The readback of dispatchWithTimingNs failed and the call returned 0.
C30_ReadbackFailed ==
    /\ last = Returned("dispatchWithTimingNs", "ok")
    /\ submission.queried
    /\ submission.ns = "0.0"

\* A step that is a call of tryGetTimingNs: of the steps that leave the
\* submission alone, the only one that ends with this entry in last.
PollStep ==
    /\ last'.op = "tryGetTimingNs"
    /\ submission' = submission
    /\ last' # last \/ program' # program

\* A timed asynchronous dispatch was submitted and its timing has not been
\* handed out.
TimedAsyncInFlight ==
    /\ submission.op = "dispatchWithTimingAsync"
    /\ submission.work \in {"pending", "done"}
    /\ \E k \in 1 .. Len(recorded) : recorded[k].call = "vkCmdWriteTimestamp 1"
    /\ program.timestampInFlight_

\* C31: tryGetTimingNs returns false, and leaves its output and the stored
\* timestamps as they were, when no timed asynchronous dispatch is in flight
\* or one of the two queries is not available; it returns true only with both
\* queries available, and once it has returned true it returns false until
\* another timed asynchronous dispatch is issued.
C31_PollOnlyTimedAsyncInFlight ==
    [][PollStep =>
            /\ last'.outcome = "true" =>
                    /\ TimedAsyncInFlight
                    /\ program.queries.available = <<TRUE, TRUE>>
                    /\ ~program'.timestampInFlight_
            /\ last'.outcome = "false" => program' = program]_vars

\* Byte k of the payload pc, 0 beyond its end.
PayloadByte(pc, k) ==
    IF k + 1 \in 1 .. Len(pc) THEN pc[k + 1] ELSE 0

\* C32: the payload buffer is all zero after construction; a
\* setPushConstants(data, bytes, offset) that is accepted sets exactly the
\* bytes offset .. offset + bytes - 1 of the payload to the caller's data and
\* leaves every other payload byte, the configuration and the workgroup
\* counts as they were; a rejected call changes no payload byte.
C32_WritesExactlyTheSpan ==
    [][/\ (last'.op = "ComputeProgram" /\ program.phase = "none") =>
            \A k \in 1 .. Len(program'.pcData_) : program'.pcData_[k] = 0
       /\ last'.op = "setPushConstants" => \A w \in PushConstantWrites :
            LET dataNull == w.dataNull
                first == w.first
                bytes == w.bytes
                offset == w.offset
            IN
            SetPushConstants(dataNull, first, bytes, offset) =>
                /\ program'.pcCfg_ = program.pcCfg_
                /\ <<program'.groupsX_, program'.groupsY_, program'.groupsZ_>>
                        = <<program.groupsX_, program.groupsY_, program.groupsZ_>>
                /\ Len(program'.pcData_) >= Len(program.pcData_)
                /\ IF last'.outcome = "ok" /\ ~dataNull /\ bytes > 0
                   THEN \A k \in 0 .. (Len(program'.pcData_) - 1) :
                            PayloadByte(program'.pcData_, k) =
                                IF k >= offset /\ k < offset + bytes
                                THEN PushData(first, k - offset)
                                ELSE PayloadByte(program.pcData_, k)
                   ELSE \/ program'.pcData_ = program.pcData_
                        \/ \A k \in 0 .. (Len(program'.pcData_) - 1) :
                                PayloadByte(program'.pcData_, k)
                                    = PayloadByte(program.pcData_, k)]_vars

\* Four bytes were written at offset 1 of a payload of eight: byte 0 and
\* bytes 5 to 7 are still zero.
C32_Witness ==
    /\ last = Returned("setPushConstants", "ok")
    /\ program.pushes = 1
    /\ Len(program.pcData_) = 8
    /\ program.pcData_[1] = 0
    /\ \A k \in 2 .. 5 : program.pcData_[k] # 0
    /\ \A k \in 6 .. 8 : program.pcData_[k] = 0

\* A write was rejected after an accepted one and the payload kept the bytes
\* of the first.
C32_RejectedKeepsPayload ==
    /\ last = Returned("setPushConstants", "RangeError")
    /\ program.pushes = 1
    /\ \E k \in 1 .. Len(program.pcData_) : program.pcData_[k] # 0

\* The last call was a copyTo that obtained its transient command buffer.
CopyToAllocated ==
    submission.op = "copyTo" /\ submission.cmdBuf \notin {"none", "misused"}

\* C33: whenever copyTo has returned or thrown after allocating its transient
\* command buffer, whichever later call failed, the command buffer has been
\* freed and the fence, if one was created, has been destroyed.
C33_CopyToReleasesTransients ==
    CopyToAllocated =>
        /\ submission.cmdBuf = "destroyed"
        /\ submission.fence \in {"none", "destroyed"}

\* The step is a Device::wait on the handle an asynchronous submission
\* returned.
WaitOnAsyncHandle ==
    /\ submission.op \in {"copyToAsync", "dispatchWithTimingAsync"}
    /\ last'.op = "wait"
    /\ submission'.waits = submission.waits + 1

\* C34: whatever asynchronous submissions and waits are made, a wait repeated
\* on the same handle included, a fence that was destroyed is not destroyed
\* again and a transient command buffer that was freed is not freed again.
C34_NothingReleasedTwice ==
    [][WaitOnAsyncHandle =>
            /\ submission.fence = "destroyed" => submission'.fence = "destroyed"
            /\ submission.cmdBuf = "destroyed" => submission'.cmdBuf = "destroyed"]_vars

\* C35: a Device::wait, whatever its timeout, destroys the fence or frees the
\* command buffer of a submission only when the submitted work has finished:
\* after a wait that released either, the work is not pending.
C35_ReclaimedOnlyWhenFinished ==
    [][(/\ WaitOnAsyncHandle
        /\ \/ submission'.fence # submission.fence
           \/ submission'.cmdBuf # submission.cmdBuf) =>
            submission'.work # "pending"]_vars

\* C36: no dispatch resets or re-records the program's command buffer while
\* an earlier submission of it is still pending: a dispatch call made on a
\* built program whose last submission has not finished records nothing and
\* submits nothing.
C36_NoRecordingWhilePending ==
    [][(/\ last'.op \in DispatchOps
        /\ program.phase = "object" /\ program.initialized_
        /\ submission.op \in DispatchOps
        /\ submission.work = "pending") =>
            \A op \in {"dispatch", "dispatchWithTimingAsync"},
               failAt \in 0 .. 6, finishes \in BOOLEAN :
                DispatchUpTo(MaxSubmits + 1, op, failAt, finishes) =>
                    /\ recorded' = recorded
                    /\ submits' = submits]_vars

\* C37: whatever setPushConstantConfig calls were made, every push-constants
\* command a dispatch records has its offset and size inside the range the
\* pipeline layout declared at construction, offset 0 and size
\* pushConstantBytes, and none is recorded when the layout declares no range.
C37_PushRangeWithinLayout ==
    \A k \in 1 .. Len(recorded) :
        recorded[k].call = "vkCmdPushConstants" =>
            /\ program.pcCapacityBytes_ > 0
            /\ recorded[k].args[1] + recorded[k].args[2] <= program.pcCapacityBytes_

\* C38: no access leaves the payload buffer.  A setPushConstants that copies
\* bytes bytes to offset does so with offset + bytes at most the length the
\* payload has for the copy, and a dispatch that records a push-constants
\* command of some size does so with a payload at least that long.
C38_PayloadAccessesInBounds ==
    [][/\ (last'.op = "setPushConstants" /\ last'.outcome = "ok") =>
            \A w \in PushConstantWrites :
                (/\ ~w.dataNull
                 /\ w.bytes > 0
                 /\ w.offset + w.bytes > Len(program'.pcData_)) =>
                    ~SetPushConstants(w.dataNull, w.first, w.bytes, w.offset)
       /\ (last'.op \in DispatchOps /\ recorded' # recorded) =>
            \A k \in 1 .. Len(recorded') :
                recorded'[k].call = "vkCmdPushConstants" =>
                    recorded'[k].args[2] <= Len(program'.pcData_)]_vars

\* C38 witness: after a write that reached the last byte of the payload, the
\* dispatch pushed the whole payload.
C38_Witness ==
    /\ last = Returned("dispatch", "ok")
    /\ program.pushes >= 1
    /\ Len(program.pcData_) > 0
    /\ program.pcData_[Len(program.pcData_)] # 0
    /\ \E k \in 1 .. Len(recorded) :
            /\ recorded[k].call = "vkCmdPushConstants"
            /\ recorded[k].args[2] = Len(program.pcData_)

\* C39: a Buffer's memory is not mapped while it is mapped: no mapWrite or
\* mapRead calls vkMapMemory for a Buffer of which a mapping is live, so that
\* no two live mappings are ever of the same Buffer.
C39_OneLiveMappingPerBuffer ==
    [][last'.op \in {"mapWrite", "mapRead"} =>
        /\ \A k \in 1 .. Len(mapCalls') :
                mapCalls'[k].call = "vkMapMemory" =>
                    \A s \in Slots :
                        ~(Live(mappings[s]) /\ mappings[s].buf = mapCalls'[k].buf)
        /\ \A s \in Slots, t \in Slots :
                (s # t /\ Live(mappings'[s]) /\ Live(mappings'[t])) =>
                    mappings'[s].buf # mappings'[t].buf]_vars

\* The range flushRange or invalidateRange hands to the driver for the live
\* mapping m is the range m maps.
RangeOfMapping(m) ==
    LET range == MappedMemoryRange(m.buf, m.offset, m.length)
    IN  range.offset = m.offset /\ range.size = m.length

\* C40: for every mapping of a non-coherent Buffer, the range flushed at the
\* release of a write mapping and the range invalidated at the creation of a
\* read mapping is the mapped range, offset and length, and so ends inside
\* the buffer.
C40_FlushedRangeIsMappedRange ==
    \A s \in Slots :
        (Live(mappings[s]) /\ ~Coherent(mappings[s].buf)) =>
            /\ RangeOfMapping(mappings[s])
            /\ mappings[s].offset + mappings[s].length <= size_[mappings[s].buf]

\* The first part of C40 alone.
C40_SameOffsetAndLength ==
    \A s \in Slots :
        (Live(mappings[s]) /\ ~Coherent(mappings[s].buf)) => RangeOfMapping(mappings[s])

============================================================================
